---- MODULE Spec2Model ----
(***************************************************************************)
(* A model of the dantelion-formats parsers: BHD5::from_bytes,             *)
(* DCX::from_bytes and BND4::from_bytes over byte buffers, with            *)
(* oodle::decompress and crypto_util::decrypt_bhd5_file.                   *)
(*                                                                         *)
(* A byte is a number in 0..255 and a buffer is a sequence of bytes.  A    *)
(* decoded fixed-width integer is kept as its bytes, most significant      *)
(* first (a "word"), so that 32- and 64-bit values keep their exact width: *)
(* sign extension, zero extension and the sign test are done on the bytes. *)
(* A word is turned into a number only where the code uses it as a count   *)
(* or as a position, and then every value of Huge or more is the same      *)
(* value Huge: no buffer of the model is that long.                        *)
(***************************************************************************)
EXTENDS Integers, Sequences, FiniteSets, TLC

VARIABLES
    api,        \* the function that was called: "BHD5", "DCX", "BND4", "RSA" or a scan
    file,       \* the input buffer handed to from_bytes or decrypt_bhd5_file
    env,        \* the environment of the call (the Oodle library)
    key,        \* the key handed to decrypt_bhd5_file
    lib,        \* the handle of the Oodle library: "none", "held" or "released"
    past,       \* the calls made before this one, each with what it returned
    pc,         \* the position of the call in its code
    pos,        \* the cursor position (br.pos / c.position()); `len` of the decryption
    ret,        \* the position saved by the enclosing function (let pos = br.pos)
    outcome,    \* "running", "ok" (Ok(..) returned), "err" (Err(..) returned), "panic"
    errKind,    \* the error returned or the reason of the panic
    bhd5,       \* the BHD5 under construction, then the returned value
    dcx,        \* the DCX under construction, then the returned value
    bnd4,       \* the BND4 under construction, then the returned value
    stream,     \* BND4::from_bytes: `bytes`, the stream the BND4 is parsed from;
                \* decrypt_bhd5_file: decrypted_data
    log         \* the entries read, each with where it began and ended; the
                \* blocks decrypted, each with the count the RSA operation reported

vars == <<past, api, file, env, key, lib, pc, pos, ret, outcome, errKind, bhd5, dcx, bnd4, stream, log>>

----------------------------------------------------------------------------
(* Bounds of the model *)

\* Every count or position of Huge or more is treated as Huge.
Huge == 65536
\* The most buckets in a generated BHD5 input.
MaxBuckets == 2
\* The most entries in a generated bucket or BND4 file list.
MaxFiles == 2
\* The most ranges in a generated sub-record.
MaxRanges == 1
\* The largest RSA key size, in bytes, of a generated key.
MaxKeySize == 3
\* The most RSA blocks in a generated ciphertext.
MaxBlocks == 2
\* The most calls made one after the other.
MaxCalls == 3

----------------------------------------------------------------------------
(* Bytes and words *)

Byte == 0..255

Zeros(n) == [i \in 1..n |-> 0]

Fill(n, b) == [i \in 1..n |-> b]

Reverse(s) == [i \in 1..Len(s) |-> s[Len(s) + 1 - i]]

\* The n bytes of buf that follow position p (p counts from 0).
Slice(buf, p, n) == SubSeq(buf, p + 1, p + n)

IsZero(w) == \A i \in 1..Len(w) : w[i] = 0

\* The sign bit of a word read as a signed integer.
IsNeg(w) == w[1] >= 128

\* `x as i64` of a signed x: the sign bit fills the new bytes.
SignExtend(w, n) == [i \in 1..(n - Len(w)) |-> IF IsNeg(w) THEN 255 ELSE 0] \o w

\* The unsigned value of a word, Huge when it is Huge or more.
Clamp(w) ==
    LET n == Len(w)
    IN  IF n = 1 THEN w[1]
        ELSE IF \E i \in 1..(n - 2) : w[i] # 0 THEN Huge
        ELSE w[n - 1] * 256 + w[n]

\* `x as usize` of a signed x: a negative x becomes a value above any buffer.
AsUsize(w) == IF IsNeg(w) THEN Huge ELSE Clamp(w)

\* The word of a little-endian and of a big-endian field.
LE(bs) == Reverse(bs)
BE(bs) == bs

RECURSIVE SumTo(_, _)
SumTo(ws, k) == IF k = 0 THEN 0 ELSE ws[k] + SumTo(ws, k - 1)

\* String::from_utf8: whether the bytes are well-formed UTF-8.
IsCont(b) == b >= 128 /\ b <= 191

RECURSIVE ValidUtf8(_)
ValidUtf8(bs) ==
    IF bs = <<>> THEN TRUE
    ELSE LET b == bs[1]
             n == Len(bs)
         IN  IF b < 128 THEN ValidUtf8(Tail(bs))
             ELSE IF b >= 194 /\ b <= 223
                  THEN n >= 2 /\ IsCont(bs[2]) /\ ValidUtf8(SubSeq(bs, 3, n))
             ELSE IF b >= 224 /\ b <= 239
                  THEN /\ n >= 3
                       /\ IsCont(bs[2]) /\ IsCont(bs[3])
                       /\ (b = 224 => bs[2] >= 160)
                       /\ (b = 237 => bs[2] <= 159)
                       /\ ValidUtf8(SubSeq(bs, 4, n))
             ELSE IF b >= 240 /\ b <= 244
                  THEN /\ n >= 4
                       /\ IsCont(bs[2]) /\ IsCont(bs[3]) /\ IsCont(bs[4])
                       /\ (b = 240 => bs[2] >= 144)
                       /\ (b = 244 => bs[2] <= 143)
                       /\ ValidUtf8(SubSeq(bs, 5, n))
             ELSE FALSE

\* str::is_char_boundary(i) of a well-formed string: a slice may end there.
IsCharBoundary(s, i) == i = Len(s) \/ (i < Len(s) /\ ~IsCont(s[i + 1]))

\* Consecutive typed reads of the widths ws from position p: each read needs
\* its bytes to lie inside the buffer and advances the cursor by its width;
\* the first read that does not fit fails ("eof") and leaves the cursor where
\* it is.  The fields whose index is in strs are decoded by String::from_utf8
\* after their bytes were read: bytes that are not UTF-8 fail there ("utf8").
\* k is the number of leading reads that fit.
Fitting(buf, p, ws) ==
    IF p > Len(buf) THEN 0
    ELSE CHOOSE k \in 0..Len(ws) :
            /\ p + SumTo(ws, k) <= Len(buf)
            /\ (k < Len(ws) => p + SumTo(ws, k + 1) > Len(buf))

FieldAt(buf, p, ws, i) == Slice(buf, p + SumTo(ws, i - 1), ws[i])

ReadResult(buf, p, ws, k, bad) ==
    IF bad # {}
    THEN [ok |-> FALSE, err |-> "utf8",
          pos |-> p + SumTo(ws, CHOOSE m \in bad : \A j \in bad : m <= j),
          vals |-> <<>>]
    ELSE [ok   |-> k = Len(ws),
          err  |-> IF k = Len(ws) THEN "none" ELSE "eof",
          pos  |-> p + SumTo(ws, k),
          vals |-> [i \in 1..k |-> FieldAt(buf, p, ws, i)]]

ReadUpTo(buf, p, ws, strs, k) ==
    ReadResult(buf, p, ws, k, {i \in strs : i <= k /\ ~ValidUtf8(FieldAt(buf, p, ws, i))})

ReadTyped(buf, p, ws, strs) == ReadUpTo(buf, p, ws, strs, Fitting(buf, p, ws))

ReadFields(buf, p, ws) == ReadTyped(buf, p, ws, {})

\* An absent optional value.
None == [present |-> FALSE]

----------------------------------------------------------------------------
(* BHD5 *)

BHD5_MAGIC_SIZE == 4
SALTED_HASH_SIZE == 32
AES_KEY_SIZE == 16

StrBHD5 == <<66, 72, 68, 53>>
StrGR   == <<71, 82, 95>>
StrFDP  == <<70, 68, 80, 95>>
StrNTC  == <<78, 84, 67, 95>>

\* fn get_bhd5_format: salt[..3] and salt[..4] panic when the salt is shorter
\* than the slice or the slice does not end on a character boundary.
SliceOk(s, n) == n <= Len(s) /\ IsCharBoundary(s, n)

get_bhd5_format(salt) ==
    IF ~SliceOk(salt, 3) THEN "panic"
    ELSE IF SubSeq(salt, 1, 3) = StrGR THEN "EldenRing"
    ELSE IF ~SliceOk(salt, 4) THEN "panic"
    ELSE IF SubSeq(salt, 1, 4) = StrFDP \/ SubSeq(salt, 1, 4) = StrNTC THEN "DarkSoulsIII"
    ELSE "DarkSoulsII"

\* The header fields of BHD5::from_bytes, read little-endian.
BHD5HeaderWidths == <<BHD5_MAGIC_SIZE, 1, 1, 1, 1, 4, 4, 4, 4, 4>>

I8(b) == IF b >= 128 THEN b - 256 ELSE b

BHD5HeaderOf(r) ==
    IF ~r.ok THEN [ok |-> FALSE, err |-> r.err, pos |-> r.pos, hdr |-> None]
    ELSE [ok  |-> TRUE,
          err |-> "none",
          pos |-> r.pos,
          hdr |-> [magic          |-> r.vals[1],
                   unk04          |-> I8(r.vals[2][1]),
                   unk05          |-> r.vals[3][1],
                   unk06          |-> r.vals[4][1],
                   unk07          |-> r.vals[5][1],
                   unk08          |-> LE(r.vals[6]),
                   file_size      |-> LE(r.vals[7]),
                   bucket_count   |-> LE(r.vals[8]),
                   buckets_offset |-> LE(r.vals[9]),
                   salt_len       |-> LE(r.vals[10]),
                   salt           |-> <<>>]]

ReadBHD5Header(buf) == BHD5HeaderOf(ReadTyped(buf, 0, BHD5HeaderWidths, {1}))

\* check_bhd5_header without the assertions on the reserved bytes.
check_bhd5_header_magic_only(h) == h.magic = StrBHD5

\* fn check_bhd5_header: TRUE when no assertion fails.
check_bhd5_header(h) ==
    /\ h.magic = StrBHD5
    /\ h.unk04 = -1
    /\ (h.unk05 = 0 \/ h.unk05 = 1)
    /\ h.unk06 = 0
    /\ h.unk07 = 0
    /\ h.unk08 = <<0, 0, 0, 1>>

\* The iterations a loop of `count` rounds of `size` bytes can begin in buf.
Rounds(buf, count, size) ==
    IF Clamp(count) > (Len(buf) \div size) + 1 THEN (Len(buf) \div size) + 1 ELSE Clamp(count)

RangesOf(r, all) ==
    [ok     |-> r.ok /\ all,
     pos    |-> r.pos,
     ranges |-> [i \in 1..(Len(r.vals) \div 2) |->
                   [begin |-> LE(r.vals[2 * i - 1]), end |-> LE(r.vals[2 * i])]]]

\* fn read_ranges: range_count pairs of i64; a negative count asks
\* Vec::with_capacity for more than the address space and panics.
read_ranges(buf, p, count) ==
    IF IsNeg(count) THEN [ok |-> FALSE, pos |-> p, ranges |-> <<>>]
    ELSE RangesOf(ReadFields(buf, p, [i \in 1..(2 * Rounds(buf, count, 16)) |-> 8]),
                  Rounds(buf, count, 16) = Clamp(count))

\* The sub-record, the cursor left where its last read ended.
SubRecordNotRestored(p, r, rr) ==
    IF ~rr.ok THEN [ok |-> FALSE, pos |-> rr.pos, rec |-> None]
    ELSE [ok  |-> TRUE,
          pos |-> rr.pos,
          rec |-> [present     |-> TRUE,
                   bytes       |-> r.vals[1],
                   range_count |-> LE(r.vals[2]),
                   ranges      |-> rr.ranges]]

SubRecordWith(p, r, rr) ==
    IF ~rr.ok THEN [ok |-> FALSE, pos |-> rr.pos, rec |-> None]
    ELSE [ok  |-> TRUE,
          pos |-> p,
          rec |-> [present     |-> TRUE,
                   bytes       |-> r.vals[1],
                   range_count |-> LE(r.vals[2]),
                   ranges      |-> rr.ranges]]

SubRecordOf(buf, p, r) ==
    IF ~r.ok THEN [ok |-> FALSE, pos |-> r.pos, rec |-> None]
    ELSE SubRecordWith(p, r, read_ranges(buf, r.pos, LE(r.vals[2])))

\* The sub-record read at any offset, with no test for None.
ReadSubRecordAnywhere(buf, p, offset, size) ==
    SubRecordOf(buf, p, ReadFields(buf, AsUsize(offset), <<size, 4>>))

\* fn read_salted_hash / fn read_aes_key: the sub-record at `offset`, of
\* `size` bytes of hash or key, a range count and its ranges.  An offset
\* below 1 gives None.  The cursor is put back where it was.  ok = FALSE is
\* a panic (an expect on a failed read).
ReadSubRecord(buf, p, offset, size) ==
    IF IsNeg(offset) \/ IsZero(offset)
    THEN [ok |-> TRUE, pos |-> p, rec |-> None]
    ELSE SubRecordOf(buf, p, ReadFields(buf, AsUsize(offset), <<size, 4>>))

read_salted_hash(buf, p, offset) == ReadSubRecord(buf, p, offset, SALTED_HASH_SIZE)

read_aes_key(buf, p, offset) == ReadSubRecord(buf, p, offset, AES_KEY_SIZE)

\* A file_size that starts at 0 in place of -1.
AbsentFileSizeZero == Zeros(8)

\* `let mut file_size = -1` of the DarkSoulsII / DarkSoulsIII branch.
AbsentFileSize == Fill(8, 255)

NoFileHeader(at) == [ok |-> FALSE, pos |-> at, hdr |-> None, sizeAt |-> -1]

\* `read_i32() as i64` of the path hash (DarkSoulsII, DarkSoulsIII) and of
\* the file size (EldenRing).
Widen(w) == SignExtend(w, 8)

FileHeaderWith(p, format, v, sh, ak, fs) ==
    IF ~fs.ok THEN NoFileHeader(fs.pos)
    ELSE [ok  |-> TRUE,
          pos |-> fs.pos,
          sizeAt |-> IF format = "EldenRing" THEN p + 12
                     ELSE IF format = "DarkSoulsIII" THEN ak.pos ELSE -1,
          hdr |-> IF format = "EldenRing"
                  THEN [file_path_hash     |-> LE(v[1]),
                        padded_file_size   |-> LE(v[2]),
                        file_size          |-> Widen(LE(v[3])),
                        file_offset        |-> LE(v[4]),
                        salted_hash_offset |-> LE(v[5]),
                        aes_key_offset     |-> LE(v[6]),
                        salted_hash        |-> sh.rec,
                        aes_key            |-> ak.rec]
                  ELSE [file_path_hash     |-> Widen(LE(v[1])),
                        padded_file_size   |-> LE(v[2]),
                        file_size          |-> IF format = "DarkSoulsIII" THEN LE(fs.vals[1])
                                               ELSE AbsentFileSize,
                        file_offset        |-> LE(v[3]),
                        salted_hash_offset |-> LE(v[4]),
                        aes_key_offset     |-> LE(v[5]),
                        salted_hash        |-> sh.rec,
                        aes_key            |-> ak.rec]]

FileHeaderKey(buf, p, format, v, sh, ak) ==
    IF ~ak.ok THEN NoFileHeader(ak.pos)
    ELSE FileHeaderWith(p, format, v, sh, ak,
            ReadFields(buf, ak.pos, IF format = "DarkSoulsIII" THEN <<8>> ELSE <<>>))

FileHeaderHash(buf, p, format, v, sh) ==
    IF ~sh.ok THEN NoFileHeader(sh.pos)
    ELSE FileHeaderKey(buf, p, format, v, sh,
            read_aes_key(buf, sh.pos, LE(v[IF format = "EldenRing" THEN 6 ELSE 5])))

FileHeaderOf(buf, p, format, r) ==
    IF ~r.ok THEN NoFileHeader(r.pos)
    ELSE FileHeaderHash(buf, p, format, r.vals,
            read_salted_hash(buf, r.pos, LE(r.vals[IF format = "EldenRing" THEN 5 ELSE 4])))

\* One iteration of the loop of fn read_file_headers: the entry at position
\* p in the layout of `format`.  sizeAt is the position the file_size field
\* was read from, -1 when none was read.  ok = FALSE is a panic.
ReadFileHeader(buf, p, format) ==
    FileHeaderOf(buf, p, format,
        ReadFields(buf, p, IF format = "EldenRing" THEN <<8, 4, 4, 8, 8, 8>> ELSE <<4, 4, 8, 8, 8>>))

----------------------------------------------------------------------------
(* DCX *)

DCX_MAGIC_SIZE == 4
DCS_SIZE == 4
DCP_SIZE == 4
FORMAT_SIZE == 4
DCA_SIZE == 4
EGDT_SIZE == 4

StrDCX  == <<68, 67, 88, 0>>
StrDCS  == <<68, 67, 83, 0>>
StrDCP  == <<68, 67, 80, 0>>
StrDCA  == <<68, 67, 65, 0>>
StrDFLT == <<68, 70, 76, 84>>
StrEDGE == <<69, 68, 71, 69>>
StrKRAK == <<75, 82, 65, 75>>
StrEgdT == <<69, 103, 100, 84>>

\* The 22 fields DCX::from_bytes reads into DCXHeader, big-endian; the
\* fields 1, 7, 10, 11 and 21 are read by util::read_fixed_string.
DCXHeaderWidths ==
    <<DCX_MAGIC_SIZE, 4, 4, 4, 4, 4, DCS_SIZE, 4, 4, DCP_SIZE, FORMAT_SIZE, 4,
      1, 1, 1, 1, 4, 4, 4, 4, DCA_SIZE, 4>>

\* The fields read when format == "EDGE", before the blocks.
EGDTWidths == <<EGDT_SIZE, 4, 4, 4, 4, 4, 4, 4, 4>>

BlocksOf(r, all) ==
    [ok     |-> r.ok /\ all,
     pos    |-> r.pos,
     blocks |-> [i \in 1..(Len(r.vals) \div 4) |->
                   [unk00      |-> BE(r.vals[4 * i - 3]),
                    dataOffset |-> BE(r.vals[4 * i - 2]),
                    dataLength |-> BE(r.vals[4 * i - 1]),
                    unk0C      |-> BE(r.vals[4 * i])]]]

\* fn read_blocks: `count` descriptors of four u32.
read_blocks(buf, p, count) ==
    BlocksOf(ReadFields(buf, p, [i \in 1..(4 * Rounds(buf, count, 16)) |-> 4]),
             Rounds(buf, count, 16) = Clamp(count))

Some(x) == [present |-> TRUE, val |-> x]

\* The struct literal of DCX::from_bytes, its optional fields still None.
DCXHeaderOf(v) ==
    [magic |-> v[1], unk04 |-> BE(v[2]), dcsOffset |-> BE(v[3]),
     dcpOffset |-> BE(v[4]), unk10 |-> BE(v[5]), unk14 |-> BE(v[6]),
     dcs |-> v[7], uncompressedSize |-> BE(v[8]), compressedSize |-> BE(v[9]),
     dcp |-> v[10], format |-> v[11], unk2C |-> BE(v[12]),
     unk30 |-> v[13][1], unk31 |-> v[14][1], unk32 |-> v[15][1],
     unk33 |-> v[16][1], unk34 |-> BE(v[17]), unk38 |-> BE(v[18]),
     unk3C |-> BE(v[19]), unk40 |-> BE(v[20]), dca |-> v[21],
     dcaSize |-> BE(v[22]),
     egdt |-> None, unk50 |-> None, unk54 |-> None, unk58 |-> None,
     unk5C |-> None, lastBlockUncompressedSize |-> None,
     egdtSize |-> None, blockCount |-> None, unk6C |-> None,
     blocks |-> None]

\* The assignments of the `if header.format == "EDGE"` block.
EdgeWith(h0, w, b) ==
    IF ~b.ok THEN [ok |-> FALSE, err |-> "eof", pos |-> b.pos, hdr |-> None]
    ELSE [ok  |-> TRUE,
          err |-> "none",
          pos |-> b.pos,
          hdr |-> [h0 EXCEPT !.egdt = Some(w[1]),
                             !.unk50 = Some(BE(w[2])),
                             !.unk54 = Some(BE(w[3])),
                             !.unk58 = Some(BE(w[4])),
                             !.unk5C = Some(BE(w[5])),
                             !.lastBlockUncompressedSize = Some(BE(w[6])),
                             !.egdtSize = Some(BE(w[7])),
                             !.blockCount = Some(BE(w[8])),
                             !.unk6C = Some(BE(w[9])),
                             !.blocks = Some(b.blocks)]]

EdgeOf(buf, h0, e) ==
    IF ~e.ok THEN [ok |-> FALSE, err |-> e.err, pos |-> e.pos, hdr |-> None]
    ELSE EdgeWith(h0, e.vals, read_blocks(buf, e.pos, BE(e.vals[8])))

DCXHeaderEdge(buf, p, h0) ==
    IF h0.format # StrEDGE THEN [ok |-> TRUE, err |-> "none", pos |-> p, hdr |-> h0]
    ELSE EdgeOf(buf, h0, ReadTyped(buf, p, EGDTWidths, {1}))

DCXHeaderRead(buf, r) ==
    IF ~r.ok THEN [ok |-> FALSE, err |-> r.err, pos |-> r.pos, hdr |-> None]
    ELSE DCXHeaderEdge(buf, r.pos, DCXHeaderOf(r.vals))

\* The header part of DCX::from_bytes: the struct literal and the EDGE block
\* of fields.  ok = FALSE is a panic (an expect on a failed read).
ReadDCXHeader(buf) == DCXHeaderRead(buf, ReadTyped(buf, 0, DCXHeaderWidths, {1, 7, 10, 11, 21}))

\* validate_dcx_header with the assertion on the magic alone.
validate_dcx_header_magic_only(h) == h.magic = StrDCX

\* fn validate_dcx_header: TRUE when no assertion fails.
validate_dcx_header(h) ==
    /\ h.magic = StrDCX
    /\ (h.unk04 = <<0, 1, 0, 0>> \/ h.unk04 = <<0, 1, 16, 0>>)
    /\ h.dcsOffset = <<0, 0, 0, 24>>
    /\ h.dcpOffset = <<0, 0, 0, 36>>
    /\ (h.unk10 = <<0, 0, 0, 36>> \/ h.unk10 = <<0, 0, 0, 68>>)
    /\ h.dcs = StrDCS
    /\ h.dcp = StrDCP
    /\ (h.format = StrDFLT \/ h.format = StrEDGE \/ h.format = StrKRAK)
    /\ h.unk2C = <<0, 0, 0, 32>>
    /\ (h.unk30 = 6 \/ h.unk30 = 8 \/ h.unk30 = 9)
    /\ h.unk31 = 0
    /\ h.unk32 = 0
    /\ h.unk33 = 0
    /\ (h.unk34 = <<0, 0, 0, 0>> \/ h.unk34 = <<0, 1, 0, 0>>)
    /\ h.unk38 = <<0, 0, 0, 0>>
    /\ h.unk3C = <<0, 0, 0, 0>>
    /\ h.dca = StrDCA
    /\ (h.format = StrEDGE =>
          /\ h.egdt.val = StrEgdT
          /\ h.unk50.val = <<0, 1, 1, 0>>
          /\ h.unk54.val = <<0, 0, 0, 36>>
          /\ h.unk58.val = <<0, 0, 0, 16>>
          /\ h.unk5C.val = <<0, 1, 0, 0>>
          /\ h.unk6C.val = <<0, 16, 0, 0>>
          /\ \A i \in 1..Len(h.blocks.val) :
                /\ h.blocks.val[i].unk00 = <<0, 0, 0, 0>>
                /\ h.blocks.val[i].unk0C = <<0, 0, 0, 1>>)

ContentOf(r) == [ok |-> r.ok, pos |-> r.pos, content |-> IF r.ok THEN r.vals[1] ELSE <<>>]

\* The content taken from the end of the fixed header, wherever the cursor is.
read_content_at_header_end(buf, p, h) ==
    ContentOf(ReadFields(buf, 76, <<Clamp(h.compressedSize)>>))

\* fn read_content: compressedSize bytes from the cursor.
read_content(buf, p, h) == ContentOf(ReadFields(buf, p, <<Clamp(h.compressedSize)>>))

DCXWith(h, c) ==
    IF ~c.ok THEN [outcome |-> "panic", why |-> "eof", pos |-> c.pos]
    ELSE [outcome |-> "ok", why |-> "none", pos |-> c.pos,
          val |-> [header |-> h.hdr, content |-> c.content]]

DCXOf(buf, h) ==
    IF ~h.ok THEN [outcome |-> "panic", why |-> h.err, pos |-> h.pos]
    ELSE IF ~validate_dcx_header(h.hdr)
         THEN [outcome |-> "panic", why |-> "assert", pos |-> h.pos]
    ELSE DCXWith(h, read_content(buf, h.pos, h.hdr))

\* DCX::from_bytes as one function: what it returns, or that it panics.
DCX_from_bytes(buf) == DCXOf(buf, ReadDCXHeader(buf))

----------------------------------------------------------------------------
(* Decompression of a DCX (DCX::is and DCX::decompress, used by BND4) *)

\* DCX::is: the magic probe.
DCX_is(buf) == Len(buf) >= 4 /\ SubSeq(buf, 1, 4) = StrDCX

\* Raw Deflate of a stream of stored blocks (BTYPE 00): a header byte with
\* the final-block bit, LEN and its complement NLEN, little-endian, and LEN
\* literal bytes.  The streams of the model hold stored blocks or the
\* reserved block type, which is malformed; Huffman blocks are not decoded.
RECURSIVE Inflate(_)
Inflate(bs) ==
    LET n     == Len(bs)
        len   == bs[2] + 256 * bs[3]
        nlen  == bs[4] + 256 * bs[5]
        rest  == Inflate(SubSeq(bs, 6 + len, n))
        fail  == [ok |-> FALSE, bytes |-> <<>>]
    IN  IF n < 5 THEN fail
        ELSE IF (bs[1] \div 2) % 4 # 0 THEN fail
        ELSE IF len + nlen # 65535 THEN fail
        ELSE IF n < 5 + len THEN fail
        ELSE IF bs[1] % 2 = 1 THEN [ok |-> TRUE, bytes |-> SubSeq(bs, 6, 5 + len)]
        ELSE IF ~rest.ok THEN fail
        ELSE [ok |-> TRUE, bytes |-> SubSeq(bs, 6, 5 + len) \o rest.bytes]

\* The zlib flag bytes the DFLT codec accepts after 0x78.
ZlibFlags == {1, 94, 156, 218}

Inflated(r) ==
    IF r.ok THEN [outcome |-> "ok", why |-> "none", bytes |-> r.bytes]
    ELSE [outcome |-> "err", why |-> "decompression"]

\* DFLT: the two header bytes are asserted, then the rest is inflated.
decompress_dflt(content) ==
    IF Len(content) < 2 THEN [outcome |-> "err", why |-> "eof"]
    ELSE IF content[1] # 120 \/ content[2] \notin ZlibFlags
         THEN [outcome |-> "panic", why |-> "assert"]
    ELSE Inflated(Inflate(SubSeq(content, 3, Len(content))))

\* fn oodle::decompress: without a library path the call returns an Io
\* error of kind NotFound; a library that does not load or lacks one of the
\* two symbols is a LibLoading error; with the library, the bytes the
\* external decoder produced (e.raw).
oodle_decompress(data, size, e) ==
    IF ~e.oodle THEN [outcome |-> "err", why |-> "notfound"]
    ELSE IF ~e.load \/ e.syms < 2 THEN [outcome |-> "err", why |-> "libloading"]
    ELSE [outcome |-> "ok", why |-> "none", bytes |-> e.raw]

\* DCX::decompress: the codec is chosen by header.format.  The EDGE codec
\* is not specified: the environment says how it ends.
decompress(d, e) ==
    IF d.header.format = StrDFLT THEN decompress_dflt(d.content)
    ELSE IF d.header.format = StrKRAK
         THEN oodle_decompress(d.content, d.header.uncompressedSize, e)
    ELSE [outcome |-> e.edge, why |-> "edge"]

----------------------------------------------------------------------------
(* BND4 *)

BND4_MAGIC_SIZE == 4
VERSION_SIZE == 8
ENDIANNESS_OFFSET == 9

StrBND4 == <<66, 78, 68, 52>>

\* Every field read little-endian, whatever the byte order of the parse.
OrdLittle(be, bs) == LE(bs)

\* A field in the byte order T of the parse.
Ord(be, bs) == IF be THEN BE(bs) ELSE LE(bs)

\* BinaryPeeker::peek_u8: the byte at `at`, the cursor not moved.
peek_u8(buf, at) ==
    IF at < Len(buf) THEN [ok |-> TRUE, val |-> buf[at + 1]] ELSE [ok |-> FALSE, val |-> 0]

\* fn reverse_bits: the loop over val = 0..7.
RECURSIVE ReverseLoop(_, _, _)
ReverseLoop(byte, val, rev) ==
    IF val < 8
    THEN LET tmp == IF (byte \div (2 ^ val)) % 2 = 1 THEN 2 ^ val ELSE 0
         IN  ReverseLoop(byte, val + 1,
                         IF tmp > 0 /\ (rev \div (2 ^ (7 - val))) % 2 = 0
                         THEN rev + 2 ^ (7 - val) ELSE rev)
    ELSE rev

\* The byte handed back as it is.
reverse_bits_unchanged(byte) == byte

reverse_bits(byte) == ReverseLoop(byte, 0, 0)

\* x & mask # 0 for a mask of one bit.
HasBit(x, mask) == (x \div mask) % 2 = 1

BND4HeaderWidths ==
    <<BND4_MAGIC_SIZE, 1, 1, 1, 1, 1, 1, 1, 1, 4, 8, VERSION_SIZE, 8, 8, 1, 1, 1, 1, 4, 8>>

\* impl Validate for BND4Header: TRUE when no assertion fails.
validate_header(h) ==
    /\ h.magic = StrBND4
    /\ (h.unk04 = 0 \/ h.unk04 = 1)
    /\ (h.unk05 = 0 \/ h.unk05 = 1)
    /\ h.unk06 = 0
    /\ h.unk07 = 0
    /\ h.unk08 = 0
    /\ (h.unk0a = 0 \/ h.unk0a = 1)
    /\ h.unk0b = 0
    /\ h.header_size = <<0, 0, 0, 0, 0, 0, 0, 64>>
    /\ (h.unicode = FALSE \/ h.unicode = TRUE)
    /\ (h.extended = 0 \/ h.extended = 4)
    /\ h.unk33 = 0
    /\ h.unk34 = <<0, 0, 0, 0>>

BND4HeaderOf(v, be) ==
    [magic |-> v[1], unk04 |-> v[2][1], unk05 |-> v[3][1], unk06 |-> v[4][1],
     unk07 |-> v[5][1], unk08 |-> v[6][1], big_endian |-> v[7][1] # 0,
     unk0a |-> v[8][1], unk0b |-> v[9][1], file_count |-> Ord(be, v[10]),
     header_size |-> Ord(be, v[11]), version |-> v[12],
     file_header_size |-> Ord(be, v[13]), file_headers_end |-> Ord(be, v[14]),
     unicode |-> v[15][1] # 0, raw_format |-> v[16][1], extended |-> v[17][1],
     unk33 |-> v[18][1], unk34 |-> Ord(be, v[19]),
     buckets_offset |-> Ord(be, v[20])]

BND4HeaderChecked(p, h) ==
    IF ~validate_header(h) THEN [outcome |-> "panic", why |-> "assert", pos |-> p, hdr |-> h]
    ELSE [outcome |-> "ok", why |-> "none", pos |-> p, hdr |-> h]

BND4HeaderRead(r, be) ==
    IF ~r.ok THEN [outcome |-> "err", why |-> "eof", pos |-> r.pos, hdr |-> None]
    ELSE BND4HeaderChecked(r.pos, BND4HeaderOf(r.vals, be))

\* fn read_bnd4_header::<T>: the 20 fields, then header.validate().
read_bnd4_header(buf, be) == BND4HeaderRead(ReadFields(buf, 0, BND4HeaderWidths), be)

CStrOf(buf, p, nul) ==
    IF nul = {} THEN [ok |-> FALSE, why |-> "eof", name |-> <<>>]
    ELSE IF ~ValidUtf8(SubSeq(buf, p + 1, (CHOOSE i \in nul : \A j \in nul : i <= j) - 1))
         THEN [ok |-> FALSE, why |-> "utf8", name |-> <<>>]
    ELSE [ok |-> TRUE, why |-> "none",
          name |-> SubSeq(buf, p + 1, (CHOOSE i \in nul : \A j \in nul : i <= j) - 1)]

\* read_cstr: the bytes up to the first NUL at or after p, decoded as UTF-8.
read_cstr(buf, p) == CStrOf(buf, p, {i \in (p + 1)..Len(buf) : buf[i] = 0})

\* Whether 16-bit units (as words) are well-formed UTF-16: every high
\* surrogate is followed by a low one and no low surrogate stands alone.
RECURSIVE ValidUtf16(_)
ValidUtf16(us) ==
    IF us = <<>> THEN TRUE
    ELSE LET hi == us[1][1] >= 216 /\ us[1][1] <= 219
             lo == us[1][1] >= 220 /\ us[1][1] <= 223
         IN  IF lo THEN FALSE
             ELSE IF hi
                  THEN /\ Len(us) >= 2
                       /\ us[2][1] >= 220 /\ us[2][1] <= 223
                       /\ ValidUtf16(SubSeq(us, 3, Len(us)))
             ELSE ValidUtf16(Tail(us))

WStrChecked(txt) ==
    IF ~ValidUtf16(txt) THEN [ok |-> FALSE, why |-> "utf16", name |-> <<>>]
    ELSE [ok |-> TRUE, why |-> "none", name |-> txt]

WStrOf(buf, p, be, zero) ==
    IF p > Len(buf) \/ zero = {} THEN [ok |-> FALSE, why |-> "eof", name |-> <<>>]
    ELSE WStrChecked([k \in 1..((CHOOSE z \in zero : \A j \in zero : z <= j) - 1) |->
                        Ord(be, Slice(buf, p + 2 * (k - 1), 2))])

\* read_wcstr: the u16 units up to the first zero unit at or after p.
read_wcstr(buf, p, be) ==
    WStrOf(buf, p, be,
           {k \in 1..((Len(buf) - p) \div 2) : buf[p + 2 * k - 1] = 0 /\ buf[p + 2 * k] = 0})

\* fn get_file_name: the name at `offset`; the cursor is put back.
get_file_name(buf, offset, h, be) ==
    IF h.unicode THEN read_wcstr(buf, offset, be) ELSE read_cstr(buf, offset)

\* File::validate with no assertion.
validate_file_nothing(f) == TRUE

\* impl Validate for File: TRUE when no assertion fails.
validate_file(f) ==
    /\ f.unk01 = 0
    /\ f.unk02 = 0
    /\ f.unk03 = 0
    /\ f.unk04 = <<255, 255, 255, 255>>

\* The format byte of fn read_bnd4_files.
EffectiveFormat(h) == IF h.big_endian THEN h.raw_format ELSE reverse_bits(h.raw_format)

Opt(c, x) == IF c THEN <<x>> ELSE <<>>

\* Which optional fields an entry of the format byte carries.
HasUncompressed(format) == HasBit(format, 32)
HasId(format) == HasBit(format, 2)
HasName(format) == HasBit(format, 4) \/ HasBit(format, 8)
IsFour(format) == format = 4

FileWidths(format) ==
    <<1, 1, 1, 1, 4, 8>> \o Opt(HasUncompressed(format), 8) \o <<4>> \o Opt(HasId(format), 4)
    \o Opt(HasName(format), 4) \o Opt(IsFour(format), 4) \o Opt(IsFour(format), 4)

\* The index, among the fields read, of data_offset, id, name_offset and
\* the second id.
DataAt(format) == IF HasUncompressed(format) THEN 8 ELSE 7
IdAt(format) == DataAt(format) + 1
NameAt(format) == IF HasId(format) THEN IdAt(format) + 1 ELSE IdAt(format)
ExtraAt(format) == NameAt(format) + 1

\* The struct literal of fn read_bnd4_files.
FileOf(v, format, be, name) ==
    [raw_flags |-> v[1][1], unk01 |-> v[2][1], unk02 |-> v[3][1],
     unk03 |-> v[4][1], unk04 |-> Ord(be, v[5]),
     compressed_size |-> Ord(be, v[6]),
     uncompressed_size |-> IF HasUncompressed(format) THEN Some(Ord(be, v[7])) ELSE None,
     data_offset |-> Ord(be, v[DataAt(format)]),
     id |-> IF IsFour(format) THEN Some(Ord(be, v[ExtraAt(format)]))
            ELSE IF HasId(format) THEN Some(Ord(be, v[IdAt(format)])) ELSE None,
     name_offset |-> IF HasName(format) THEN Some(Ord(be, v[NameAt(format)])) ELSE None,
     zero |-> IF IsFour(format) THEN Some(Ord(be, v[ExtraAt(format) + 1])) ELSE None,
     name |-> IF HasName(format) THEN Some(name) ELSE None,
     data |-> Some(<<>>)]

FileChecked(p, f) ==
    IF ~validate_file(f) THEN [outcome |-> "panic", why |-> "assert", pos |-> p, file |-> f]
    ELSE [outcome |-> "ok", why |-> "none", pos |-> p, file |-> f]

\* The entry with its name, the cursor left after the name.
FileNamedNotRestored(r, format, be, nm) ==
    IF ~nm.ok THEN [outcome |-> "err", why |-> nm.why, pos |-> r.pos, file |-> None]
    ELSE FileChecked(Clamp(Ord(be, r.vals[NameAt(format)])) + Len(nm.name) + 1,
                     FileOf(r.vals, format, be, nm.name))

FileNamed(r, format, be, nm) ==
    IF ~nm.ok THEN [outcome |-> "err", why |-> nm.why, pos |-> r.pos, file |-> None]
    ELSE FileChecked(r.pos, FileOf(r.vals, format, be, nm.name))

FileRead(buf, h, be, format, r) ==
    IF ~r.ok THEN [outcome |-> "err", why |-> "eof", pos |-> r.pos, file |-> None]
    ELSE IF HasName(format)
         THEN FileNamed(r, format, be,
                        get_file_name(buf, Clamp(Ord(be, r.vals[NameAt(format)])), h, be))
    ELSE FileChecked(r.pos, FileOf(r.vals, format, be, <<>>))

ReadFileOf(buf, p, h, be, format) == FileRead(buf, h, be, format, ReadFields(buf, p, FileWidths(format)))

\* One iteration of the loop of fn read_bnd4_files::<T>: the entry at p.
ReadBND4File(buf, p, h, be) == ReadFileOf(buf, p, h, be, EffectiveFormat(h))

PairsOf(r, be, n) ==
    [i \in 1..n |-> [first |-> Ord(be, r.vals[2 * i - 1]), second |-> Ord(be, r.vals[2 * i])]]

\* fn read_bnd4_buckets / fn read_bnd4_hashes: `count` pairs of u32 from p.
PairsRead(r, be, all) ==
    [ok |-> r.ok /\ all, pos |-> r.pos,
     pairs |-> IF r.ok THEN PairsOf(r, be, Len(r.vals) \div 2) ELSE <<>>]

ReadPairs(buf, p, count, be) ==
    PairsRead(ReadFields(buf, p, [i \in 1..(2 * Rounds(buf, count, 8)) |-> 4]), be,
              Rounds(buf, count, 8) = Clamp(count))

\* The bucket header, the cursor left after the last hash record.
BucketHeaderNotRestored(p, v, be, b, hs) ==
    IF ~hs.ok THEN [outcome |-> "err", why |-> "eof", pos |-> hs.pos, val |-> None]
    ELSE [outcome |-> "ok", why |-> "none", pos |-> hs.pos,
          val |-> [present |-> TRUE,
                   hashes_offset |-> Ord(be, v[1]),
                   bucket_count |-> Ord(be, v[2]),
                   buckets_header_size |-> v[3][1],
                   bucket_size |-> v[4][1],
                   hash_size |-> v[5][1],
                   unk0f |-> v[6][1],
                   buckets |-> [i \in 1..Len(b.pairs) |->
                                  [count |-> b.pairs[i].first, index |-> b.pairs[i].second]],
                   hashes |-> [i \in 1..Len(hs.pairs) |->
                                  [hash |-> hs.pairs[i].first, index |-> hs.pairs[i].second]]]]

BucketHeaderWith(p, v, be, b, hs) ==
    IF ~hs.ok THEN [outcome |-> "err", why |-> "eof", pos |-> hs.pos, val |-> None]
    ELSE [outcome |-> "ok", why |-> "none", pos |-> p,
          val |-> [present |-> TRUE,
                   hashes_offset |-> Ord(be, v[1]),
                   bucket_count |-> Ord(be, v[2]),
                   buckets_header_size |-> v[3][1],
                   bucket_size |-> v[4][1],
                   hash_size |-> v[5][1],
                   unk0f |-> v[6][1],
                   buckets |-> [i \in 1..Len(b.pairs) |->
                                  [count |-> b.pairs[i].first, index |-> b.pairs[i].second]],
                   hashes |-> [i \in 1..Len(hs.pairs) |->
                                  [hash |-> hs.pairs[i].first, index |-> hs.pairs[i].second]]]]

BucketHeaderBuckets(buf, p, h, be, v, b) ==
    IF ~b.ok THEN [outcome |-> "err", why |-> "eof", pos |-> b.pos, val |-> None]
    ELSE BucketHeaderWith(p, v, be, b, ReadPairs(buf, Clamp(Ord(be, v[1])), h.file_count, be))

BucketHeaderRead(buf, p, h, be, r) ==
    IF ~r.ok THEN [outcome |-> "err", why |-> "eof", pos |-> r.pos, val |-> None]
    ELSE BucketHeaderBuckets(buf, p, h, be, r.vals, ReadPairs(buf, r.pos, Ord(be, r.vals[2]), be))

\* fn read_bnd4_bucket_header::<T> with read_bnd4_buckets and
\* read_bnd4_hashes: the table at buckets_offset; the cursor is put back.
read_bnd4_bucket_header(buf, p, h, be) ==
    BucketHeaderRead(buf, p, h, be, ReadFields(buf, Clamp(h.buckets_offset), <<8, 4, 1, 1, 1, 1>>))

----------------------------------------------------------------------------
(* crypto_util.rs: decrypt_bhd5_file *)

\* The effect of the RSA operation on one byte of a block; any fixed
\* permutation of the bytes other than the identity stands for it.
RsaByte(b) == (5 * b + 3) % 256

\* An RSA operation that reports no bytes for a block it has decrypted.
public_decrypt_reporting_nothing(block) ==
    IF block[1] = 255 THEN [ok |-> FALSE, n |-> 0, out |-> <<>>]
    ELSE [ok |-> TRUE, n |-> 0, out |-> [i \in 1..Len(block) |-> RsaByte(block[i])]]

\* public_key.public_decrypt(block_data, &mut decrypted_block, Padding::NONE):
\* fails when the block is not below the modulus (a leading 0xFF byte here),
\* else writes key_size bytes and reports key_size.
public_decrypt(block) ==
    IF block[1] = 255 THEN [ok |-> FALSE, n |-> 0, out |-> <<>>]
    ELSE [ok |-> TRUE, n |-> Len(block), out |-> [i \in 1..Len(block) |-> RsaByte(block[i])]]

\* The whole decrypted block, first byte included.
DecryptedWhole(out) == out

\* &decrypted_block[1..]
DecryptedTail(out) == SubSeq(out, 2, Len(out))

\* Vec::truncate(len): no effect when len is not below the current length.
Truncate(data, len) == IF len >= Len(data) THEN data ELSE SubSeq(data, 1, len)

----------------------------------------------------------------------------
(* The input buffers of the model.  They are written by encoders of their   *)
(* own, which share nothing with the parsers above.                         *)

\* n < 65536 in w bytes, little-endian and big-endian.
EncLE(n, w) == [i \in 1..w |-> IF i = 1 THEN n % 256 ELSE IF i = 2 THEN n \div 256 ELSE 0]
EncBE(n, w) == Reverse(EncLE(n, w))
Enc(be, n, w) == IF be THEN EncBE(n, w) ELSE EncLE(n, w)

\* buf with the byte at offset `at` replaced by b (unchanged when outside).
Patch(buf, at, b) == [i \in 1..Len(buf) |-> IF i = at + 1 THEN b ELSE buf[i]]

\* The first n bytes of buf.
Cut(buf, n) == SubSeq(buf, 1, IF n < Len(buf) THEN n ELSE Len(buf))

RECURSIVE Concat(_)
Concat(ss) == IF ss = <<>> THEN <<>> ELSE ss[1] \o Concat(Tail(ss))

\* The layout a salt asks for, decided on its first bytes.
LayoutOf(salt) ==
    IF Len(salt) >= 3 /\ SubSeq(salt, 1, 3) = <<71, 82, 95>> THEN "EldenRing"
    ELSE IF Len(salt) >= 4 /\ SubSeq(salt, 1, 4) \in {<<70, 68, 80, 95>>, <<78, 84, 67, 95>>}
         THEN "DarkSoulsIII"
    ELSE "DarkSoulsII"

\* The kinds of BHD5 entry: the top byte of the path hash and of the file
\* size, whether each sub-record is there ("some"), absent with offset 0
\* ("none") or absent with a negative offset ("neg"), and the range count.
EntryKinds ==
    << [h |-> 18,  fs |-> 0,   sh |-> "none", ak |-> "none", rc |-> 0],
       [h |-> 128, fs |-> 128, sh |-> "some", ak |-> "none", rc |-> MaxRanges],
       [h |-> 127, fs |-> 0,   sh |-> "none", ak |-> "some", rc |-> 0],
       [h |-> 255, fs |-> 1,   sh |-> "some", ak |-> "some", rc |-> MaxRanges],
       [h |-> 18,  fs |-> 128, sh |-> "neg",  ak |-> "neg",  rc |-> 0] >>

KindOf(seed, j) == EntryKinds[((seed + j - 2) % Len(EntryKinds)) + 1]

\* The bytes of one sub-record slot: `size` bytes of hash or key, the range
\* count and MaxRanges ranges of which rc are used.
SubSlot(size, b, rc) ==
    Fill(size, b) \o EncLE(rc, 4) \o Concat([i \in 1..MaxRanges |-> EncLE(16 * i, 8) \o EncLE(16 * i + 8, 8)])

SlotSize == 32 + 4 + 16 * MaxRanges + 16 + 4 + 16 * MaxRanges

\* A BHD5 index: the salt, the number of entries of each bucket (shape) and
\* the kind of the first entry (seed); entry j has kind seed + j - 1.
MkBHD5(salt, shape, seed) ==
    LET lay    == LayoutOf(salt)
        S      == IF lay = "DarkSoulsII" THEN 32 ELSE 40
        nb     == Len(shape)
        E      == SumTo(shape, nb)
        base   == 28 + Len(salt) + 8 * nb
        sub0   == base + E * S
        total  == sub0 + E * SlotSize
        shAt(j) == sub0 + (j - 1) * SlotSize
        akAt(j) == shAt(j) + 36 + 16 * MaxRanges
        off(k, at) == IF k = "none" THEN Zeros(8) ELSE IF k = "neg" THEN Fill(8, 255) ELSE EncLE(at, 8)
        entry(j) ==
            LET k == KindOf(seed, j)
            IN  IF lay = "EldenRing"
                THEN <<j, 2, 3, 4, 5, 6, 7, k.h>> \o EncLE(16, 4) \o <<1, 0, 0, k.fs>>
                     \o EncLE(256 * j, 8) \o off(k.sh, shAt(j)) \o off(k.ak, akAt(j))
                ELSE <<j, 2, 3, k.h>> \o EncLE(16, 4) \o EncLE(256 * j, 8)
                     \o off(k.sh, shAt(j)) \o off(k.ak, akAt(j))
                     \o (IF lay = "DarkSoulsIII" THEN <<1, 0, 0, 0, 0, 0, 0, k.fs>> ELSE <<>>)
        slot(j) == SubSlot(32, 170, KindOf(seed, j).rc) \o SubSlot(16, 187, KindOf(seed, j).rc)
    IN  <<66, 72, 68, 53, 255, 0, 0, 0>> \o EncLE(1, 4) \o EncLE(total, 4) \o EncLE(nb, 4)
        \o EncLE(28 + Len(salt), 4) \o EncLE(Len(salt), 4) \o salt
        \o Concat([b \in 1..nb |-> EncLE(shape[b], 4) \o EncLE(base + SumTo(shape, b - 1) * S, 4)])
        \o Concat([j \in 1..E |-> entry(j)])
        \o Concat([j \in 1..E |-> slot(j)])

Shapes == UNION {[1..n -> 0..MaxFiles] : n \in 0..MaxBuckets}

\* One salt of each layout, then salts that are short, that only resemble a
\* prefix, that hold a two-byte character across a slice end, or that are
\* not UTF-8.
LayoutSalts == {<<71, 82, 95, 88>>, <<70, 68, 80, 95>>, <<68, 83, 50, 95, 88>>}

OddSalts ==
    {<<>>, <<71>>, <<71, 82>>, <<71, 82, 95>>, <<70, 68, 80>>, <<78, 84, 67, 95>>,
     <<78, 84, 67>>, <<65, 66, 67>>, <<65, 66, 67, 68>>, <<71, 82, 195, 169>>,
     <<70, 68, 80, 195, 169>>, <<255, 71, 82, 95>>}

\* Single-byte changes of a well-formed index: header fields, counts and
\* offsets (the base has a 4-byte salt, so its bucket record is at 32).
BHD5Patches ==
    {<<0, 0>>, <<4, 0>>, <<5, 1>>, <<5, 2>>, <<6, 1>>, <<7, 1>>, <<8, 2>>, <<11, 1>>,
     <<16, 5>>, <<19, 255>>, <<23, 255>>, <<24, 3>>, <<24, 200>>, <<27, 255>>,
     <<35, 255>>, <<37, 255>>, <<39, 255>>}

BHD5Cuts == {0, 3, 10, 23, 27, 35, 50, 80, 120}

BHD5Files ==
    {MkBHD5(s, sh, k) : s \in LayoutSalts, sh \in Shapes, k \in 1..Len(EntryKinds)}
    \cup {MkBHD5(s, <<1>>, 2) : s \in OddSalts}
    \cup {Patch(MkBHD5(<<71, 82, 95, 88>>, <<1>>, 2), p[1], p[2]) : p \in BHD5Patches}
    \cup {Cut(MkBHD5(<<70, 68, 80, 95>>, <<1>>, 4), n) : n \in BHD5Cuts}

\* A DCX envelope of format fmt around `content`, with n EDGE blocks.
MkDCX(fmt, usize, content, n) ==
    <<68, 67, 88, 0>> \o <<0, 1, 0, 0>> \o EncBE(24, 4) \o EncBE(36, 4) \o EncBE(36, 4)
    \o EncBE(44, 4) \o <<68, 67, 83, 0>> \o EncBE(usize, 4) \o EncBE(Len(content), 4)
    \o <<68, 67, 80, 0>> \o fmt \o EncBE(32, 4) \o <<9, 0, 0, 0>> \o Zeros(12)
    \o <<0, 1, 1, 0>> \o <<68, 67, 65, 0>> \o EncBE(8, 4)
    \o (IF fmt = <<69, 68, 71, 69>>
        THEN <<69, 103, 100, 84>> \o <<0, 1, 1, 0>> \o EncBE(36, 4) \o EncBE(16, 4)
             \o <<0, 1, 0, 0>> \o EncBE(usize, 4) \o EncBE(36 + 16 * n, 4) \o EncBE(n, 4)
             \o <<0, 16, 0, 0>>
             \o Concat([i \in 1..n |-> Zeros(4) \o EncBE(4 * (i - 1), 4) \o EncBE(4, 4) \o EncBE(1, 4)])
        ELSE <<>>)
    \o content

\* A zlib stream holding p in one stored block, with four bytes of checksum.
Stored(p) ==
    <<120, 218, 1>> \o EncLE(Len(p), 2) \o EncLE(65535 - Len(p), 2) \o p \o <<1, 2, 3, 4>>

DCXFormats == {<<68, 70, 76, 84>>, <<75, 82, 65, 75>>, <<69, 68, 71, 69>>, <<90, 83, 84, 68>>}

\* Single-byte changes of a well-formed envelope: every validated field.
DCXPatches ==
    {<<0, 0>>, <<6, 16>>, <<6, 32>>, <<11, 25>>, <<15, 37>>, <<19, 68>>, <<19, 69>>,
     <<26, 84>>, <<35, 0>>, <<38, 81>>, <<40, 255>>, <<47, 33>>, <<48, 6>>, <<48, 8>>,
     <<48, 7>>, <<49, 1>>, <<50, 1>>, <<51, 1>>, <<53, 1>>, <<53, 2>>, <<59, 1>>,
     <<63, 1>>, <<70, 66>>, <<76, 101>>, <<82, 2>>, <<87, 37>>, <<91, 17>>, <<93, 2>>,
     <<109, 17>>, <<115, 1>>, <<127, 2>>, <<131, 1>>, <<143, 0>>}

DCXCuts == {0, 3, 40, 75, 76, 79, 100, 111, 112, 120, 143, 145}

DCXFiles ==
    {MkDCX(f, 4, c, n) : f \in DCXFormats, c \in {<<>>, <<9, 8, 7, 6, 5>>}, n \in 0..MaxFiles}
    \cup {Patch(MkDCX(f, 4, <<9, 8, 7, 6, 5>>, MaxFiles), p[1], p[2]) :
            f \in {<<68, 70, 76, 84>>, <<69, 68, 71, 69>>}, p \in DCXPatches}
    \cup {Cut(MkDCX(<<69, 68, 71, 69>>, 4, <<9, 8, 7, 6, 5>>, MaxFiles), n) : n \in DCXCuts}
    \cup {Cut(Patch(MkDCX(f, 4, <<9, 8, 7, 6, 5>>, MaxFiles), p[1], p[2]),
               Len(MkDCX(f, 4, <<>>, MaxFiles)) + 2) :
            f \in {<<68, 70, 76, 84>>, <<69, 68, 71, 69>>}, p \in DCXPatches}

\* The raw format bytes of the generated containers, each with the format
\* byte it stands for in a little-endian stream.
LittleFormat == (0 :> 0) @@ (4 :> 32) @@ (32 :> 4) @@ (64 :> 2) @@ (46 :> 116)
                @@ (116 :> 46) @@ (16 :> 8) @@ (100 :> 38)

RawFormats == DOMAIN LittleFormat

\* A BND4 container of n entries in the byte order be, with names of one
\* character, and with a bucket table when wb.
MkBND4(be, raw, uni, n, wb) ==
    LET f    == IF be THEN raw ELSE LittleFormat[raw]
        bit(m) == (f \div m) % 2 = 1
        hasU == bit(32)
        hasI == bit(2)
        hasN == bit(4) \/ bit(8)
        S    == 20 + (IF hasU THEN 8 ELSE 0) + (IF hasI THEN 4 ELSE 0)
                + (IF hasN THEN 4 ELSE 0) + (IF f = 4 THEN 8 ELSE 0)
        n0   == 64 + n * S
        b0   == n0 + 8 * n
        entry(k) ==
            <<64, 0, 0, 0, 255, 255, 255, 255>> \o Enc(be, 16 * k, 8)
            \o (IF hasU THEN Enc(be, 32 * k, 8) ELSE <<>>)
            \o Enc(be, 512 + k, 4)
            \o (IF hasI THEN Enc(be, 100 + k, 4) ELSE <<>>)
            \o (IF hasN THEN Enc(be, n0 + 8 * (k - 1), 4) ELSE <<>>)
            \o (IF f = 4 THEN Enc(be, 200 + k, 4) \o Zeros(4) ELSE <<>>)
        name(k) ==
            IF uni THEN Enc(be, 96 + k, 2) \o Enc(be, 46, 2) \o Zeros(4)
            ELSE <<96 + k, 46, 112, 0, 0, 0, 0, 0>>
    IN  <<66, 78, 68, 52, 0, 0, 0, 0, 0, IF be THEN 1 ELSE 0, 1, 0>> \o Enc(be, n, 4)
        \o Enc(be, 64, 8) \o <<48, 55, 68, 55, 82, 54, 0, 0>> \o Enc(be, S, 8)
        \o Enc(be, n0, 8) \o <<IF uni THEN 1 ELSE 0, raw, 4, 0>> \o Zeros(4)
        \o Enc(be, IF wb THEN b0 ELSE 0, 8)
        \o Concat([k \in 1..n |-> entry(k)])
        \o Concat([k \in 1..n |-> name(k)])
        \o (IF wb
            THEN Enc(be, b0 + 24, 8) \o Enc(be, 1, 4) \o <<16, 8, 8, 0>>
                 \o Enc(be, n, 4) \o Enc(be, 0, 4)
                 \o Concat([k \in 1..n |-> Enc(be, 7 * k, 4) \o Enc(be, k - 1, 4)])
            ELSE <<>>)

\* Single-byte changes of a well-formed container of one entry: header
\* fields, the entry at 0x40, its name and the bucket table.
BND4Patches ==
    {<<0, 0>>, <<4, 1>>, <<4, 2>>, <<5, 1>>, <<5, 2>>, <<6, 1>>, <<7, 1>>, <<8, 1>>,
     <<9, 1>>, <<9, 2>>, <<10, 0>>, <<10, 2>>, <<11, 1>>, <<12, 1>>, <<13, 1>>, <<16, 65>>, <<17, 1>>,
     <<50, 0>>, <<50, 1>>, <<51, 1>>, <<52, 1>>, <<56, 200>>, <<57, 1>>,
     <<65, 1>>, <<66, 1>>, <<67, 1>>, <<68, 0>>, <<100, 250>>, <<106, 1>>, <<104, 255>>,
     <<112, 250>>, <<120, 9>>, <<116, 0>>, <<116, 2>>, <<119, 2>>}

BND4Cuts == {0, 3, 9, 10, 40, 63, 64, 70, 103, 104, 106, 115, 128, 130, 140}

BND4Plain ==
    {MkBND4(be, raw, uni, n, wb) :
        be \in BOOLEAN, raw \in RawFormats, uni \in BOOLEAN, n \in 0..MaxFiles, wb \in BOOLEAN}
    \cup {Patch(MkBND4(be, 116, FALSE, 1, TRUE), p[1], p[2]) : be \in BOOLEAN, p \in BND4Patches}
    \cup {Cut(MkBND4(FALSE, 116, uni, 1, TRUE), n) : uni \in BOOLEAN, n \in BND4Cuts}

\* The payloads that are wrapped in a DCX: well-formed containers, one that
\* fails an assertion, one that is cut short, and one that is itself a DCX.
Payloads ==
    {MkBND4(FALSE, 116, FALSE, 1, TRUE), MkBND4(TRUE, 46, TRUE, MaxFiles, FALSE),
     Patch(MkBND4(FALSE, 116, FALSE, 1, TRUE), 6, 1),
     Cut(MkBND4(FALSE, 116, FALSE, 1, TRUE), 70)}

Nested == {MkDCX(<<68, 70, 76, 84>>, Len(p), Stored(p), 0) : p \in Payloads}

NoEnv == [oodle |-> FALSE, load |-> FALSE, syms |-> 0, raw |-> <<>>, edge |-> "err"]

\* The environments of a Kraken decompression that would produce p: no
\* library path; a path whose library does not load; a library with
\* neither, one or both of the symbols.
OodleEnvs(p) ==
    {NoEnv, [NoEnv EXCEPT !.oodle = TRUE]}
    \cup {[oodle |-> TRUE, load |-> TRUE, syms |-> n, raw |-> p, edge |-> "err"] : n \in 0..2}

\* The calls other than decrypt_bhd5_file take no key.
NoKey == [ok |-> FALSE, size |-> 0]

\* Single-byte changes of a wrapped container: the envelope's magic and a
\* reserved field, the zlib header, the stored block, and the payload end.
WrapPatches == {<<1, 0>>, <<49, 1>>, <<76, 121>>, <<77, 2>>, <<78, 7>>, <<81, 1>>}

Inputs ==
    {[api |-> "BHD5", file |-> f, env |-> NoEnv, key |-> NoKey] : f \in BHD5Files}
    \cup {[api |-> "DCX", file |-> f, env |-> NoEnv, key |-> NoKey] : f \in DCXFiles}
    \cup {[api |-> "BND4", file |-> f, env |-> NoEnv, key |-> NoKey] : f \in BND4Plain}
    \cup {[api |-> "BND4", file |-> MkDCX(<<68, 70, 76, 84>>, Len(p), Stored(p), 0), env |-> NoEnv,
           key |-> NoKey] :
            p \in Payloads \cup Nested}
    \cup {[api |-> "BND4",
           file |-> Patch(MkDCX(<<68, 70, 76, 84>>, Len(p), Stored(p), 0), w[1], w[2]),
           env |-> NoEnv, key |-> NoKey] : p \in {MkBND4(FALSE, 116, FALSE, 1, TRUE)}, w \in WrapPatches}
    \cup {[api |-> "BND4",
           file |-> Cut(MkDCX(<<68, 70, 76, 84>>, Len(p), Stored(p), 0), n),
           env |-> NoEnv, key |-> NoKey] : p \in {MkBND4(FALSE, 116, FALSE, 1, TRUE)}, n \in {50, 76, 90}}
    \cup UNION {{[api |-> "BND4",
                   file |-> MkDCX(<<75, 82, 65, 75>>, Len(p), <<140, 6, 1, 2>>, 0),
                   env |-> e, key |-> NoKey] : e \in OodleEnvs(p)} :
                    p \in Payloads \cup Nested}
    \cup {[api |-> "BND4", file |-> MkDCX(<<69, 68, 71, 69>>, Len(p), Stored(p), 1),
           env |-> [NoEnv EXCEPT !.edge = e], key |-> NoKey] :
            p \in {MkBND4(FALSE, 116, FALSE, 1, TRUE)}, e \in {"err", "panic"}}

\* A ciphertext block of key size k: one below the modulus, one not below
\* it, and one with a leading zero byte.
Block(k, t) ==
    [i \in 1..k |-> IF i = 1 THEN (IF t = "big" THEN 255 ELSE IF t = "zero" THEN 0 ELSE 9)
                    ELSE 16 * i + (IF t = "zero" THEN 1 ELSE 0)]

RECURSIVE Blocks(_, _)
Blocks(k, ts) == IF ts = <<>> THEN <<>> ELSE Block(k, Head(ts)) \o Blocks(k, Tail(ts))

BlockKinds == {"plain", "zero", "big"}

\* The calls of decrypt_bhd5_file: whole blocks, with or without a trailing
\* partial block, under a key that parses or does not.
Ciphertexts ==
    {[api |-> "RSA", file |-> Blocks(k, ts) \o extra, env |-> NoEnv,
      key |-> [ok |-> ok, size |-> k]] :
        k \in 2..MaxKeySize, ok \in BOOLEAN, extra \in {<<>>, <<7>>},
        ts \in UNION {[1..n -> BlockKinds] : n \in 0..MaxBlocks}}

----------------------------------------------------------------------------
(* The calls *)

EmptyBHD5 == [format |-> "none", bhd5_header |-> None, buckets |-> <<>>, cur |-> None]
EmptyDCX  == [header |-> None, content |-> <<>>]
EmptyBND4 == [header |-> None, files |-> <<>>, buckets |-> None]

Init ==
    /\ \E inp \in Inputs \cup Ciphertexts :
          /\ api = inp.api
          /\ file = inp.file
          /\ env = inp.env
          /\ key = inp.key
    /\ lib = "none"
    /\ past = <<>>
    /\ pc = "start"
    /\ pos = 0
    /\ ret = 0
    /\ outcome = "running"
    /\ errKind = "none"
    /\ bhd5 = EmptyBHD5
    /\ dcx = EmptyDCX
    /\ bnd4 = EmptyBND4
    /\ stream = <<>>
    /\ log = <<>>

\* The call ends: by returning Ok ("ok") or Err ("err"), or by a panic.
End(how, why) == outcome' = how /\ errKind' = why /\ pc' = "done"

Going(next) == pc' = next /\ UNCHANGED <<outcome, errKind>>

Running(a, at) == api = a /\ pc = at /\ outcome = "running"

\* BHD5::from_bytes, the header literal (every read is an expect).
BHD5_ReadHeader ==
    /\ Running("BHD5", "start")
    /\ LET r == ReadBHD5Header(file)
       IN  /\ pos' = r.pos
           /\ IF r.ok
              THEN bhd5' = [bhd5 EXCEPT !.bhd5_header = r.hdr] /\ Going("check")
              ELSE bhd5' = bhd5 /\ End("panic", r.err)
    /\ UNCHANGED <<past, api, file, env, key, lib, ret, dcx, bnd4, stream, log>>

\* check_bhd5_header(&header)
BHD5_CheckHeader ==
    /\ Running("BHD5", "check")
    /\ IF check_bhd5_header(bhd5.bhd5_header) THEN Going("salt") ELSE End("panic", "assert")
    /\ UNCHANGED <<past, api, file, env, key, lib, pos, ret, bhd5, dcx, bnd4, stream, log>>

\* The salt, the format and the allocation of the bucket list.
BHD5_ReadSalt ==
    /\ Running("BHD5", "salt")
    /\ LET h   == bhd5.bhd5_header
           r   == ReadTyped(file, pos, <<AsUsize(h.salt_len)>>, {1})
           fmt == get_bhd5_format(r.vals[1])
       IN  /\ pos' = r.pos
           /\ IF ~r.ok THEN bhd5' = bhd5 /\ End("panic", r.err)
              ELSE IF fmt = "panic"
                   THEN /\ bhd5' = [bhd5 EXCEPT !.bhd5_header.salt = r.vals[1]]
                        /\ End("panic", "slice")
              ELSE IF IsNeg(h.bucket_count)
                   THEN /\ bhd5' = [bhd5 EXCEPT !.bhd5_header.salt = r.vals[1], !.format = fmt]
                        /\ End("panic", "capacity")
              ELSE /\ bhd5' = [bhd5 EXCEPT !.bhd5_header.salt = r.vals[1], !.format = fmt]
                   /\ Going("buckets")
    /\ UNCHANGED <<past, api, file, env, key, lib, ret, dcx, bnd4, stream, log>>

\* One iteration of the bucket loop, up to the jump of read_file_headers.
BHD5_BucketHeader ==
    /\ Running("BHD5", "buckets")
    /\ Len(bhd5.buckets) < Clamp(bhd5.bhd5_header.bucket_count)
    /\ LET r == ReadFields(file, pos, <<4, 4>>)
           count  == LE(r.vals[1])
           offset == LE(r.vals[2])
       IN  IF ~r.ok
           THEN pos' = r.pos /\ UNCHANGED <<ret, bhd5>> /\ End("panic", "eof")
           ELSE IF IsNeg(count)
                THEN pos' = r.pos /\ UNCHANGED <<ret, bhd5>> /\ End("panic", "capacity")
           ELSE /\ ret' = r.pos
                /\ pos' = AsUsize(offset)
                /\ bhd5' = [bhd5 EXCEPT !.cur = [file_header_count |-> count,
                                                 file_headers_offset |-> offset,
                                                 file_headers |-> <<>>]]
                /\ Going("entries")
    /\ UNCHANGED <<past, api, file, env, key, lib, dcx, bnd4, stream, log>>

\* One iteration of the loop of read_file_headers.
BHD5_ReadFileHeader ==
    /\ Running("BHD5", "entries")
    /\ Len(bhd5.cur.file_headers) < Clamp(bhd5.cur.file_header_count)
    /\ LET r == ReadFileHeader(file, pos, bhd5.format)
       IN  /\ pos' = r.pos
           /\ IF r.ok
              THEN /\ bhd5' = [bhd5 EXCEPT !.cur.file_headers = Append(@, r.hdr)]
                   /\ log' = Append(log, [at |-> pos, end |-> r.pos, sizeAt |-> r.sizeAt,
                                          hdr |-> r.hdr])
                   /\ Going("entries")
              ELSE UNCHANGED <<bhd5, log>> /\ End("panic", "eof")
    /\ UNCHANGED <<past, api, file, env, key, lib, ret, dcx, bnd4, stream>>

\* The end of read_file_headers (br.jmp(pos)) and buckets.push.
BHD5_EndBucket ==
    /\ Running("BHD5", "entries")
    /\ Len(bhd5.cur.file_headers) = Clamp(bhd5.cur.file_header_count)
    /\ pos' = ret
    /\ bhd5' = [bhd5 EXCEPT !.buckets = Append(@, bhd5.cur), !.cur = None]
    /\ Going("buckets")
    /\ UNCHANGED <<past, api, file, env, key, lib, ret, dcx, bnd4, stream, log>>

\* Ok(BHD5 { format, bhd5_header, buckets })
BHD5_Return ==
    /\ Running("BHD5", "buckets")
    /\ Len(bhd5.buckets) = Clamp(bhd5.bhd5_header.bucket_count)
    /\ End("ok", "none")
    /\ UNCHANGED <<past, api, file, env, key, lib, pos, ret, bhd5, dcx, bnd4, stream, log>>

\* DCX::from_bytes, the header literal and the EDGE fields.
DCX_ReadHeader ==
    /\ Running("DCX", "start")
    /\ LET r == ReadDCXHeader(file)
       IN  /\ pos' = r.pos
           /\ IF r.ok
              THEN dcx' = [dcx EXCEPT !.header = r.hdr] /\ Going("validate")
              ELSE dcx' = dcx /\ End("panic", r.err)
    /\ UNCHANGED <<past, api, file, env, key, lib, ret, bhd5, bnd4, stream, log>>

\* The content read first and the header validated after it.
DCX_ValidateAfterContent ==
    /\ Running("DCX", "validate")
    /\ IF ~read_content(file, pos, dcx.header).ok THEN End("panic", "eof")
       ELSE IF validate_dcx_header(dcx.header) THEN Going("content")
       ELSE End("panic", "assert")
    /\ UNCHANGED <<past, api, file, env, key, lib, pos, ret, bhd5, dcx, bnd4, stream, log>>

\* validate_dcx_header(&header)
DCX_Validate ==
    /\ Running("DCX", "validate")
    /\ IF validate_dcx_header(dcx.header) THEN Going("content") ELSE End("panic", "assert")
    /\ UNCHANGED <<past, api, file, env, key, lib, pos, ret, bhd5, dcx, bnd4, stream, log>>

\* read_content(&mut br, &header).expect(..) and Ok(DCX { header, content })
DCX_ReadContent ==
    /\ Running("DCX", "content")
    /\ LET c == read_content(file, pos, dcx.header)
       IN  /\ pos' = c.pos
           /\ IF c.ok
              THEN dcx' = [dcx EXCEPT !.content = c.content] /\ End("ok", "none")
              ELSE dcx' = dcx /\ End("panic", "eof")
    /\ UNCHANGED <<past, api, file, env, key, lib, ret, bhd5, bnd4, stream, log>>

\* BND4::from_bytes, `let bytes = if DCX::is(file) { .. } else { .. }`.
\* The Kraken codec goes on in oodle::decompress, step by step.
BND4_Unwrap ==
    /\ Running("BND4", "start")
    /\ IF ~DCX_is(file)
       THEN stream' = file /\ dcx' = dcx /\ Going("header")
       ELSE LET d == DCX_from_bytes(file)
                u == decompress(d.val, env)
            IN  IF d.outcome # "ok"
                THEN stream' = stream /\ dcx' = dcx /\ End(d.outcome, d.why)
                ELSE /\ dcx' = d.val
                     /\ IF d.val.header.format = StrKRAK
                        THEN stream' = stream /\ Going("oodle_path")
                        ELSE IF u.outcome # "ok"
                             THEN stream' = stream /\ End(u.outcome, u.why)
                        ELSE stream' = u.bytes /\ Going("header")
    /\ UNCHANGED <<past, api, file, env, key, lib, pos, ret, bhd5, bnd4, log>>

\* The lookup of the path, with its failure reported as a LibLoading error.
Oodle_GetPathLibLoading ==
    /\ Running("BND4", "oodle_path")
    /\ IF env.oodle THEN Going("oodle_load") ELSE End("err", "libloading")
    /\ UNCHANGED <<past, api, file, env, key, lib, pos, ret, bhd5, dcx, bnd4, stream, log>>

\* oodle::decompress, `match get_oodle_path()`: no path is an Io error of
\* kind NotFound.
Oodle_GetPath ==
    /\ Running("BND4", "oodle_path")
    /\ IF env.oodle THEN Going("oodle_load") ELSE End("err", "notfound")
    /\ UNCHANGED <<past, api, file, env, key, lib, pos, ret, bhd5, dcx, bnd4, stream, log>>

\* Library::new(&oodle_path)?: the handle is held from here on.
Oodle_Load ==
    /\ Running("BND4", "oodle_load")
    /\ IF env.load
       THEN lib' = "held" /\ Going("oodle_size")
       ELSE lib' = lib /\ End("err", "libloading")
    /\ UNCHANGED <<past, api, file, env, key, pos, ret, bhd5, dcx, bnd4, stream, log>>

\* oodle.get(b"OodleLZ_GetDecodeBufferSize")?: on the early return the
\* Library is dropped, which frees the handle.
Oodle_GetDecodeBufferSize ==
    /\ Running("BND4", "oodle_size")
    /\ IF env.syms >= 1
       THEN lib' = lib /\ Going("oodle_sym")
       ELSE lib' = "released" /\ End("err", "libloading")
    /\ UNCHANGED <<past, api, file, env, key, pos, ret, bhd5, dcx, bnd4, stream, log>>

\* The second symbol resolved, the handle kept on the early return.
Oodle_GetDecompressLeaking ==
    /\ Running("BND4", "oodle_sym")
    /\ IF env.syms >= 2 THEN Going("oodle_call") ELSE End("err", "libloading")
    /\ UNCHANGED <<past, api, file, env, key, lib, pos, ret, bhd5, dcx, bnd4, stream, log>>

\* oodle.get(b"OodleLZ_Decompress")?
Oodle_GetDecompress ==
    /\ Running("BND4", "oodle_sym")
    /\ IF env.syms >= 2
       THEN lib' = lib /\ Going("oodle_call")
       ELSE lib' = "released" /\ End("err", "libloading")
    /\ UNCHANGED <<past, api, file, env, key, pos, ret, bhd5, dcx, bnd4, stream, log>>

\* The two calls into the library, oodle.close(), raw_buf.truncate(raw_len)
\* and Ok(raw_buf): BND4::from_bytes goes on with the decoded bytes.
Oodle_Decode ==
    /\ Running("BND4", "oodle_call")
    /\ lib' = "released"
    /\ stream' = env.raw
    /\ Going("header")
    /\ UNCHANGED <<past, api, file, env, key, pos, ret, bhd5, dcx, bnd4, log>>

\* The peek of the byte-order flag and read_bnd4_header.
BND4_ReadHeader ==
    /\ Running("BND4", "header")
    /\ LET pk == peek_u8(stream, ENDIANNESS_OFFSET)
           r  == read_bnd4_header(stream, pk.val # 0)
       IN  IF ~pk.ok
           THEN UNCHANGED <<pos, bnd4>> /\ End("err", "eof")
           ELSE /\ pos' = r.pos
                /\ IF r.outcome = "ok"
                   THEN bnd4' = [bnd4 EXCEPT !.header = r.hdr] /\ Going("files")
                   ELSE bnd4' = bnd4 /\ End(r.outcome, r.why)
    /\ UNCHANGED <<past, api, file, env, key, lib, ret, bhd5, dcx, stream, log>>

\* `be` of BND4::from_bytes: the byte order chosen by the peek.
BigEndian == peek_u8(stream, ENDIANNESS_OFFSET).val # 0

\* One iteration of the loop of read_bnd4_files.
BND4_ReadFile ==
    /\ Running("BND4", "files")
    /\ Len(bnd4.files) < Clamp(bnd4.header.file_count)
    /\ LET r == ReadBND4File(stream, pos, bnd4.header, BigEndian)
       IN  /\ pos' = r.pos
           /\ IF r.outcome = "ok"
              THEN /\ bnd4' = [bnd4 EXCEPT !.files = Append(@, r.file)]
                   /\ log' = Append(log, [at |-> pos, end |-> r.pos])
                   /\ Going("files")
              ELSE UNCHANGED <<bnd4, log>> /\ End(r.outcome, r.why)
    /\ UNCHANGED <<past, api, file, env, key, lib, ret, bhd5, dcx, stream>>

\* The bucket table, read when header.buckets_offset != 0.
BND4_ReadBuckets ==
    /\ Running("BND4", "files")
    /\ Len(bnd4.files) = Clamp(bnd4.header.file_count)
    /\ IF IsZero(bnd4.header.buckets_offset)
       THEN UNCHANGED <<pos, ret, bnd4>> /\ Going("return")
       ELSE LET r == read_bnd4_bucket_header(stream, pos, bnd4.header, BigEndian)
            IN  /\ pos' = r.pos
                /\ ret' = pos
                /\ IF r.outcome = "ok"
                   THEN bnd4' = [bnd4 EXCEPT !.buckets = r.val] /\ Going("return")
                   ELSE bnd4' = bnd4 /\ End(r.outcome, r.why)
    /\ UNCHANGED <<past, api, file, env, key, lib, bhd5, dcx, stream, log>>

\* Ok(BND4 { header, files, buckets })
BND4_Return ==
    /\ Running("BND4", "return")
    /\ End("ok", "none")
    /\ UNCHANGED <<past, api, file, env, key, lib, pos, ret, bhd5, dcx, bnd4, stream, log>>

\* decrypt_bhd5_file: Rsa::public_key_from_pem_pkcs1(key)? and the locals.
RSA_ParseKey ==
    /\ Running("RSA", "start")
    /\ IF key.ok THEN Going("blocks") ELSE End("err", "openssl")
    /\ UNCHANGED <<past, api, file, env, key, lib, pos, ret, bhd5, dcx, bnd4, stream, log>>

\* One iteration of the loop: `pos` is len, `stream` is decrypted_data.
RSA_Block ==
    /\ Running("RSA", "blocks")
    /\ pos < Len(file)
    /\ IF pos + key.size > Len(file)
       THEN UNCHANGED <<pos, stream, log>> /\ End("panic", "slice")
       ELSE LET r == public_decrypt(SubSeq(file, pos + 1, pos + key.size))
            IN  IF ~r.ok
                THEN UNCHANGED <<pos, stream, log>> /\ End("err", "openssl")
                ELSE /\ pos' = pos + r.n
                     /\ stream' = stream \o DecryptedTail(r.out)
                     /\ log' = Append(log, [at |-> pos, n |-> r.n, out |-> r.out])
                     /\ Going("blocks")
    /\ UNCHANGED <<past, api, file, env, key, lib, ret, bhd5, dcx, bnd4>>

\* decrypted_data.truncate(len); Ok(decrypted_data)
RSA_Return ==
    /\ Running("RSA", "blocks")
    /\ pos >= Len(file)
    /\ stream' = Truncate(stream, pos)
    /\ End("ok", "none")
    /\ UNCHANGED <<past, api, file, env, key, lib, pos, ret, bhd5, dcx, bnd4, log>>

Next ==
    \/ BHD5_ReadHeader
    \/ BHD5_CheckHeader
    \/ BHD5_ReadSalt
    \/ BHD5_BucketHeader
    \/ BHD5_ReadFileHeader
    \/ BHD5_EndBucket
    \/ BHD5_Return
    \/ DCX_ReadHeader
    \/ DCX_Validate
    \/ DCX_ReadContent
    \/ BND4_Unwrap
    \/ Oodle_GetPath
    \/ Oodle_Load
    \/ Oodle_GetDecodeBufferSize
    \/ Oodle_GetDecompress
    \/ Oodle_Decode
    \/ BND4_ReadHeader
    \/ BND4_ReadFile
    \/ BND4_ReadBuckets
    \/ BND4_Return
    \/ RSA_ParseKey
    \/ RSA_Block
    \/ RSA_Return

Spec == Init /\ [][Next]_vars

----------------------------------------------------------------------------
(* Calls made one after the other in one process *)

\* The inputs of the repeated calls: one of each entry point, a Kraken
\* envelope, a truncated buffer and a buffer that fails an assertion.  The
\* decoder's output for the Kraken envelope is fixed by the envelope.
TwiceInputs ==
    {[api |-> "BHD5", file |-> MkBHD5(<<70, 68, 80, 95>>, <<1>>, 4), env |-> NoEnv, key |-> NoKey],
     [api |-> "BHD5", file |-> Cut(MkBHD5(<<70, 68, 80, 95>>, <<1>>, 4), 35), env |-> NoEnv,
      key |-> NoKey],
     [api |-> "DCX", file |-> MkDCX(<<69, 68, 71, 69>>, 4, <<9, 8, 7, 6, 5>>, 1), env |-> NoEnv,
      key |-> NoKey],
     [api |-> "BND4", file |-> MkBND4(FALSE, 116, FALSE, 1, TRUE), env |-> NoEnv, key |-> NoKey],
     [api |-> "BND4", file |-> Patch(MkBND4(TRUE, 116, FALSE, 1, TRUE), 6, 1), env |-> NoEnv,
      key |-> NoKey],
     [api |-> "BND4", file |-> MkDCX(<<75, 82, 65, 75>>, 9, <<140, 6, 1, 2>>, 0),
      env |-> [NoEnv EXCEPT !.raw = MkBND4(TRUE, 46, TRUE, 1, FALSE)], key |-> NoKey],
     [api |-> "RSA", file |-> Blocks(2, <<"plain", "zero">>), env |-> NoEnv,
      key |-> [ok |-> TRUE, size |-> 2]]}

\* What the process finds when it looks for the Oodle library.
Installs ==
    {[oodle |-> FALSE, load |-> FALSE, syms |-> 0], [oodle |-> TRUE, load |-> FALSE, syms |-> 0],
     [oodle |-> TRUE, load |-> TRUE, syms |-> 1], [oodle |-> TRUE, load |-> TRUE, syms |-> 2]}

\* The environment e with the library as in a.
Installed(e, a) == [e EXCEPT !.oodle = a.oodle, !.load = a.load, !.syms = a.syms]

\* What the call returned: how it ended and, when Ok, the value.
Result ==
    [how |-> outcome, why |-> errKind,
     val |-> IF outcome # "ok" THEN <<>>
             ELSE IF api = "BHD5" THEN <<bhd5>>
             ELSE IF api = "DCX" THEN <<dcx>>
             ELSE IF api = "BND4" THEN <<bnd4>>
             ELSE <<stream>>]

\* The locals of a call that keep what the call before left in them.
StaleLocals ==
    /\ ret' = 0
    /\ bhd5' = EmptyBHD5
    /\ dcx' = EmptyDCX
    /\ bnd4' = EmptyBND4
    /\ log' = <<>>
    /\ UNCHANGED <<pos, stream>>

\* The locals of a call are new in every call: the cursor at 0, the empty
\* lists, len = 0 and decrypted_data = vec!().
FreshLocals ==
    /\ pos' = 0
    /\ ret' = 0
    /\ bhd5' = EmptyBHD5
    /\ dcx' = EmptyDCX
    /\ bnd4' = EmptyBND4
    /\ stream' = <<>>
    /\ log' = <<>>

InitTwice ==
    /\ \E inp \in TwiceInputs, a \in Installs :
          /\ api = inp.api
          /\ file = inp.file
          /\ env = Installed(inp.env, a)
          /\ key = inp.key
    /\ lib = "none"
    /\ past = <<>>
    /\ pc = "start"
    /\ pos = 0
    /\ ret = 0
    /\ outcome = "running"
    /\ errKind = "none"
    /\ bhd5 = EmptyBHD5
    /\ dcx = EmptyDCX
    /\ bnd4 = EmptyBND4
    /\ stream = <<>>
    /\ log = <<>>

\* The call has ended (a panic being caught by the caller) and the process
\* makes the next call, on any input; the library is where it was, and the
\* handle is whatever the call before left.
CallAgain ==
    /\ pc = "done"
    /\ Len(past) + 1 < MaxCalls
    /\ past' = Append(past, [api |-> api, file |-> file, key |-> key, res |-> Result])
    /\ \E inp \in TwiceInputs :
          /\ api' = inp.api
          /\ file' = inp.file
          /\ env' = Installed(inp.env, env)
          /\ key' = inp.key
    /\ FreshLocals
    /\ pc' = "start"
    /\ outcome' = "running"
    /\ errKind' = "none"
    /\ UNCHANGED lib

NextTwice == Next \/ CallAgain

SpecTwice == InitTwice /\ [][NextTwice]_vars

----------------------------------------------------------------------------
(* BND4::from_bytes as a function of its input *)

Returned(how, why, val) == [outcome |-> how, why |-> why, val |-> val]

\* fn read_bnd4_files::<T>: the loop, from the entry at p on.
RECURSIVE read_bnd4_files(_, _, _, _, _)
FilesNext(buf, h, be, files, r) ==
    IF r.outcome # "ok" THEN [outcome |-> r.outcome, why |-> r.why, pos |-> r.pos, files |-> files]
    ELSE read_bnd4_files(buf, r.pos, h, be, Append(files, r.file))

read_bnd4_files(buf, p, h, be, files) ==
    IF Len(files) >= Clamp(h.file_count)
    THEN [outcome |-> "ok", why |-> "none", pos |-> p, files |-> files]
    ELSE FilesNext(buf, h, be, files, ReadBND4File(buf, p, h, be))

BND4With(hd, fs, bk) ==
    IF bk.outcome # "ok" THEN Returned(bk.outcome, bk.why, EmptyBND4)
    ELSE Returned("ok", "none", [header |-> hd.hdr, files |-> fs.files, buckets |-> bk.val])

BND4Files(buf, be, hd, fs) ==
    IF fs.outcome # "ok" THEN Returned(fs.outcome, fs.why, EmptyBND4)
    ELSE BND4With(hd, fs,
            IF IsZero(hd.hdr.buckets_offset) THEN Returned("ok", "none", None)
            ELSE read_bnd4_bucket_header(buf, fs.pos, hd.hdr, be))

BND4Header(buf, be, hd) ==
    IF hd.outcome # "ok" THEN Returned(hd.outcome, hd.why, EmptyBND4)
    ELSE BND4Files(buf, be, hd, read_bnd4_files(buf, hd.pos, hd.hdr, be, <<>>))

BND4Peeked(buf, pk) ==
    IF ~pk.ok THEN Returned("err", "eof", EmptyBND4)
    ELSE BND4Header(buf, pk.val # 0, read_bnd4_header(buf, pk.val # 0))

\* BND4::from_bytes from `let mut c = Cursor::new(&bytes[..])` on.
ParseBND4(bytes) == BND4Peeked(bytes, peek_u8(bytes, ENDIANNESS_OFFSET))

BND4Decompressed(u) ==
    IF u.outcome # "ok" THEN Returned(u.outcome, u.why, EmptyBND4) ELSE ParseBND4(u.bytes)

BND4Unwrapped(d, e) ==
    IF d.outcome # "ok" THEN Returned(d.outcome, d.why, EmptyBND4)
    ELSE BND4Decompressed(decompress(d.val, e))

\* BND4::from_bytes in the environment e: what it returns, or that it panics.
BND4_from_bytes(f, e) ==
    IF DCX_is(f) THEN BND4Unwrapped(DCX_from_bytes(f), e) ELSE ParseBND4(f)

----------------------------------------------------------------------------
(* Properties of BHD5::from_bytes *)

\* get_bhd5_format panicked on the salt that was read.
DialectFailed == api = "BHD5" /\ outcome = "panic" /\ errKind = "slice"

\* The salt was read and handed to get_bhd5_format.
DialectAsked == api = "BHD5" /\ (bhd5.format # "none" \/ DialectFailed)

\* The dialect the prefixes of a salt stand for, whatever its length.
StartsWith(s, prefix) == Len(s) >= Len(prefix) /\ SubSeq(s, 1, Len(prefix)) = prefix

PrefixDialect(salt) ==
    IF StartsWith(salt, <<71, 82, 95>>) THEN "EldenRing"
    ELSE IF StartsWith(salt, <<70, 68, 80, 95>>) \/ StartsWith(salt, <<78, 84, 67, 95>>)
         THEN "DarkSoulsIII"
    ELSE "DarkSoulsII"

\* The salt of the input, taken from its bytes: salt_len at 0x18, the salt
\* at 0x1C.
WireSalt == SubSeq(file, 29, 28 + file[25] + 256 * file[26])

\* C1: for every salt read from a BHD5 header, of any length, the dialect is
\* EldenRing for the prefix "GR_", DarkSoulsIII for "FDP_" or "NTC_" and
\* DarkSoulsII otherwise, and determining it never fails.
C1_DialectByPrefixNeverFails ==
    DialectAsked => ~DialectFailed /\ bhd5.format = PrefixDialect(WireSalt)

\* A salt shorter than three bytes was read and the call panicked on it.
C1_ShortSaltPanics == DialectFailed /\ Len(WireSalt) < 3 /\ pos = 28 + Len(WireSalt)

\* The entries read so far, each with the position it was read at.
Entries == IF api = "BHD5" THEN log ELSE <<>>

MinusOne64 == <<255, 255, 255, 255, 255, 255, 255, 255>>
Zero64 == <<0, 0, 0, 0, 0, 0, 0, 0>>

\* C2: for every entry of a DarkSoulsII index no file_size field is consumed
\* (the entry is the 32 bytes of its five fields) and its file_size is -1.
C2_DS2FileSizeIsMinusOne ==
    bhd5.format = "DarkSoulsII" =>
        \A i \in 1..Len(Entries) :
            /\ Entries[i].sizeAt = -1
            /\ Entries[i].end = Entries[i].at + 32
            /\ Entries[i].hdr.file_size = MinusOne64

\* C2 as stated: the file_size of a DarkSoulsII entry is 0.
C2_DS2FileSizeIsZero ==
    bhd5.format = "DarkSoulsII" =>
        \A i \in 1..Len(Entries) :
            /\ Entries[i].sizeAt = -1
            /\ Entries[i].end = Entries[i].at + 32
            /\ Entries[i].hdr.file_size = Zero64

\* A DarkSoulsII index with entries was parsed to the end.
C2_DS2Parsed ==
    api = "BHD5" /\ outcome = "ok" /\ bhd5.format = "DarkSoulsII" /\ Len(Entries) >= 2

\* A 64-bit word that is at least 1 as a signed number.
AtLeastOne(w) == w[1] < 128 /\ w # Zero64

\* C3: in every parsed entry each sub-record is there exactly when its offset
\* is at least 1 as a signed 64-bit number: zero and every negative offset
\* mean absent, and an absent sub-record is None, not a failure.
C3_SubRecordIffOffsetPositive ==
    \A i \in 1..Len(Entries) :
        /\ Entries[i].hdr.salted_hash.present <=> AtLeastOne(Entries[i].hdr.salted_hash_offset)
        /\ Entries[i].hdr.aes_key.present <=> AtLeastOne(Entries[i].hdr.aes_key_offset)

\* C3 as stated: offset 0 is the only value that means absent.
C3_SubRecordIffOffsetNonZero ==
    \A i \in 1..Len(Entries) :
        /\ Entries[i].hdr.salted_hash.present <=> Entries[i].hdr.salted_hash_offset # Zero64
        /\ Entries[i].hdr.aes_key.present <=> Entries[i].hdr.aes_key_offset # Zero64

\* An index was parsed to the end with an entry that has both sub-records,
\* and one whose offsets are zero or negative and that has none.
C3_PresentAndAbsentParsed ==
    /\ api = "BHD5" /\ outcome = "ok"
    /\ \E i \in 1..Len(Entries) :
          /\ Entries[i].hdr.salted_hash.present
          /\ Entries[i].hdr.aes_key.present
          /\ Len(Entries[i].hdr.salted_hash.ranges) = MaxRanges
    /\ \E i \in 1..Len(Entries) :
          /\ ~AtLeastOne(Entries[i].hdr.salted_hash_offset)
          /\ ~Entries[i].hdr.salted_hash.present
          /\ ~Entries[i].hdr.aes_key.present

\* The four bytes at offset `at` of the input as an unsigned little-endian
\* number, in a 64-bit word.
WireU32(at) == <<0, 0, 0, 0, file[at + 4], file[at + 3], file[at + 2], file[at + 1]>>

\* C4: widening keeps the unsigned wire value: the file_path_hash of a
\* DarkSoulsII or DarkSoulsIII entry is its 32-bit path hash zero-extended,
\* and the file_size of an EldenRing entry is its 32-bit file size
\* zero-extended.
C4_WideningZeroExtends ==
    \A i \in 1..Len(Entries) :
        IF bhd5.format = "EldenRing"
        THEN Entries[i].hdr.file_size = WireU32(Entries[i].at + 12)
        ELSE Entries[i].hdr.file_path_hash = WireU32(Entries[i].at)

\* An entry was parsed whose 32-bit path hash has the top bit set.
C4_TopBitHashParsed ==
    /\ api = "BHD5" /\ bhd5.format = "DarkSoulsIII"
    /\ \E i \in 1..Len(Entries) :
          /\ file[Entries[i].at + 4] >= 128
          /\ SubSeq(Entries[i].hdr.file_path_hash, 1, 4) = <<255, 255, 255, 255>>

\* C5: a BHD5 that from_bytes returns has magic "BHD5", unk04 0xFF, unk05 in
\* {0, 1}, unk06 and unk07 0 and unk08 1, and so do the bytes of its input.
C5_BHD5HeaderInvariants ==
    api = "BHD5" /\ outcome = "ok" =>
        /\ bhd5.bhd5_header.magic = <<66, 72, 68, 53>>
        /\ bhd5.bhd5_header.unk04 = -1
        /\ bhd5.bhd5_header.unk05 \in {0, 1}
        /\ bhd5.bhd5_header.unk06 = 0
        /\ bhd5.bhd5_header.unk07 = 0
        /\ bhd5.bhd5_header.unk08 = <<0, 0, 0, 1>>
        /\ SubSeq(file, 1, 4) = <<66, 72, 68, 53>>
        /\ file[5] = 255
        /\ file[6] \in {0, 1}
        /\ file[7] = 0
        /\ file[8] = 0
        /\ SubSeq(file, 9, 12) = <<1, 0, 0, 0>>

\* An index with buckets and entries was returned.
C5_BHD5Returned ==
    /\ api = "BHD5" /\ outcome = "ok"
    /\ Len(bhd5.buckets) = MaxBuckets
    /\ Len(bhd5.buckets[1].file_headers) >= 1

----------------------------------------------------------------------------
(* Properties of DCX::from_bytes *)

\* A DCX value was returned: by the call itself, or to BND4::from_bytes.
DCXReturned == (api = "DCX" /\ outcome = "ok") \/ (api = "BND4" /\ dcx # EmptyDCX)

\* The optional fields of the EDGE block.
EdgeFields(h) ==
    <<h.egdt, h.unk50, h.unk54, h.unk58, h.unk5C, h.lastBlockUncompressedSize,
      h.egdtSize, h.blockCount, h.unk6C, h.blocks>>

\* C6: a DCX that from_bytes returns has magic "DCX\0", dcsOffset 0x18,
\* dcpOffset 0x24, dcs "DCS\0", dcp "DCP\0", dca "DCA\0" and a format among
\* "DFLT", "EDGE" and "KRAK"; with "EDGE" the EGDT fields are there, egdt is
\* "EgdT", blockCount blocks were read and each has unk00 0 and unk0C 1;
\* with "DFLT" or "KRAK" the EGDT fields and the blocks are None.
C6_DCXHeaderInvariants ==
    DCXReturned =>
        /\ dcx.header.magic = <<68, 67, 88, 0>>
        /\ dcx.header.dcsOffset = <<0, 0, 0, 24>>
        /\ dcx.header.dcpOffset = <<0, 0, 0, 36>>
        /\ dcx.header.dcs = <<68, 67, 83, 0>>
        /\ dcx.header.dcp = <<68, 67, 80, 0>>
        /\ dcx.header.dca = <<68, 67, 65, 0>>
        /\ dcx.header.format \in {<<68, 70, 76, 84>>, <<69, 68, 71, 69>>, <<75, 82, 65, 75>>}
        /\ IF dcx.header.format = <<69, 68, 71, 69>>
           THEN /\ \A i \in 1..10 : EdgeFields(dcx.header)[i].present
                /\ dcx.header.egdt.val = <<69, 103, 100, 84>>
                /\ dcx.header.blockCount.val = <<0, 0, 0, Len(dcx.header.blocks.val)>>
                /\ \A i \in 1..Len(dcx.header.blocks.val) :
                      /\ dcx.header.blocks.val[i].unk00 = <<0, 0, 0, 0>>
                      /\ dcx.header.blocks.val[i].unk0C = <<0, 0, 0, 1>>
           ELSE \A i \in 1..10 : ~EdgeFields(dcx.header)[i].present

\* An EDGE envelope with blocks was returned.
C6_EdgeReturned ==
    /\ api = "DCX" /\ outcome = "ok"
    /\ dcx.header.format = <<69, 68, 71, 69>>
    /\ Len(dcx.header.blocks.val) = MaxFiles
    /\ Len(dcx.content) > 0

----------------------------------------------------------------------------
(* Properties of BND4::from_bytes *)

\* C7: a BND4 that from_bytes returns has magic "BND4", unk06, unk07, unk08,
\* unk0b, unk33 and unk34 equal to 0, unk04, unk05 and unk0a in {0, 1},
\* header_size 0x40 and extended in {0, 4}, and every file of its list has
\* unk01, unk02 and unk03 equal to 0 and unk04 equal to -1.
C7_BND4Invariants ==
    api = "BND4" /\ outcome = "ok" =>
        /\ bnd4.header.magic = <<66, 78, 68, 52>>
        /\ bnd4.header.unk06 = 0
        /\ bnd4.header.unk07 = 0
        /\ bnd4.header.unk08 = 0
        /\ bnd4.header.unk0b = 0
        /\ bnd4.header.unk33 = 0
        /\ bnd4.header.unk34 = <<0, 0, 0, 0>>
        /\ bnd4.header.unk04 \in {0, 1}
        /\ bnd4.header.unk05 \in {0, 1}
        /\ bnd4.header.unk0a \in {0, 1}
        /\ bnd4.header.header_size = <<0, 0, 0, 0, 0, 0, 0, 64>>
        /\ bnd4.header.extended \in {0, 4}
        /\ \A i \in 1..Len(bnd4.files) :
              /\ bnd4.files[i].unk01 = 0
              /\ bnd4.files[i].unk02 = 0
              /\ bnd4.files[i].unk03 = 0
              /\ bnd4.files[i].unk04 = <<255, 255, 255, 255>>

\* A container with files and a bucket table was returned.
C7_BND4Returned ==
    /\ api = "BND4" /\ outcome = "ok"
    /\ Len(bnd4.files) = MaxFiles
    /\ bnd4.buckets.present

\* The n bytes at offset `at` of the stream as a number in the byte order
\* that byte 9 of the stream stands for.
Decoded(at, n) ==
    IF stream[10] # 0 THEN [i \in 1..n |-> stream[at + i]]
    ELSE [i \in 1..n |-> stream[at + n + 1 - i]]

\* The field of a file entry that was read last.
LastField(f) ==
    IF f.zero.present THEN f.zero.val
    ELSE IF f.name_offset.present THEN f.name_offset.val
    ELSE IF f.id.present THEN f.id.val
    ELSE f.data_offset

\* A position below 65536 held in a 64-bit word.
Position(w) == 256 * w[7] + w[8]

\* C8: byte 9 of the stream selects the byte order before anything else is
\* read: every integer of the header, of the file entries and of the
\* bucket table is decoded big-endian when it is non-zero and little-endian
\* when it is zero, so file_count is the four bytes at 0x0C in that order.
C8_ByteNineSelectsOrder ==
    /\ api = "BND4" /\ pc \notin {"start", "header"} /\ stream = file /\ Len(file) < 10 =>
          outcome = "err" /\ errKind = "eof" /\ pos = 0 /\ bnd4 = EmptyBND4
    /\ api = "BND4" /\ bnd4.header # None =>
          /\ bnd4.header.big_endian = (stream[10] # 0)
          /\ bnd4.header.file_count = Decoded(12, 4)
          /\ bnd4.header.header_size = Decoded(16, 8)
          /\ bnd4.header.file_header_size = Decoded(32, 8)
          /\ bnd4.header.file_headers_end = Decoded(40, 8)
          /\ bnd4.header.unk34 = Decoded(52, 4)
          /\ bnd4.header.buckets_offset = Decoded(56, 8)
          /\ \A i \in 1..Len(bnd4.files) :
                /\ bnd4.files[i].unk04 = Decoded(log[i].at + 4, 4)
                /\ bnd4.files[i].compressed_size = Decoded(log[i].at + 8, 8)
                /\ Decoded(log[i].end - 4, 4) = LastField(bnd4.files[i])
          /\ bnd4.buckets.present =>
                /\ bnd4.buckets.hashes_offset = Decoded(Position(bnd4.header.buckets_offset), 8)
                /\ bnd4.buckets.bucket_count = Decoded(Position(bnd4.header.buckets_offset) + 8, 4)
                /\ \A i \in 1..Len(bnd4.buckets.hashes) :
                      bnd4.buckets.hashes[i].hash =
                          Decoded(Position(bnd4.buckets.hashes_offset) + 8 * (i - 1), 4)

\* A big-endian container was returned with a file, a bucket table and its
\* hashes: its file_count is not the same number in the other byte order.
C8_BigEndianReturned ==
    /\ api = "BND4" /\ outcome = "ok"
    /\ stream[10] # 0
    /\ Len(bnd4.files) >= 1
    /\ bnd4.header.file_count # Reverse(bnd4.header.file_count)
    /\ bnd4.buckets.present
    /\ Len(bnd4.buckets.hashes) >= 1

\* Bit i of a byte.
Bit(b, i) == (b \div (2 ^ i)) % 2

\* The byte whose bit i is bit 7 - i of b.
Mirror(b) ==
    Bit(b, 7) + 2 * Bit(b, 6) + 4 * Bit(b, 5) + 8 * Bit(b, 4) + 16 * Bit(b, 3)
    + 32 * Bit(b, 2) + 64 * Bit(b, 1) + 128 * Bit(b, 0)

\* r is b with its bits in the opposite order, and reverses back to b.
IsReversal(b, r) ==
    /\ \A i \in 0..7 : Bit(r, i) = Bit(b, 7 - i)
    /\ reverse_bits(r) = b

\* The format byte the header stands for.
FormatByte == IF bnd4.header.big_endian THEN bnd4.header.raw_format ELSE Mirror(bnd4.header.raw_format)

\* The bytes of an entry that holds the optional fields of format byte f.
EntrySize(f) ==
    20 + 8 * Bit(f, 5) + 4 * Bit(f, 1) + (IF Bit(f, 2) = 1 \/ Bit(f, 3) = 1 THEN 4 ELSE 0)
    + (IF f = 4 THEN 8 ELSE 0)

\* C9: the format byte is raw_format in a big-endian stream and its 8-bit
\* reversal otherwise (bit i of reverse_bits(b) is bit 7 - i of b, and
\* reversing twice gives b back); in every parsed file uncompressed_size is
\* there iff bit 0x20 is set, name_offset iff bit 0x04 or bit 0x08 is set,
\* id iff bit 0x02 is set or the format byte is exactly 4, and zero iff the
\* format byte is exactly 4.
C9_FormatByteSelectsFields ==
    api = "BND4" =>
        /\ \A b \in Byte : IsReversal(b, reverse_bits(b))
        /\ bnd4.header # None =>
              /\ EffectiveFormat(bnd4.header) = FormatByte
              /\ \A i \in 1..Len(bnd4.files) :
                    /\ bnd4.files[i].uncompressed_size.present <=> Bit(FormatByte, 5) = 1
                    /\ bnd4.files[i].name_offset.present <=>
                          (Bit(FormatByte, 2) = 1 \/ Bit(FormatByte, 3) = 1)
                    /\ bnd4.files[i].name.present <=> bnd4.files[i].name_offset.present
                    /\ bnd4.files[i].id.present <=> (Bit(FormatByte, 1) = 1 \/ FormatByte = 4)
                    /\ bnd4.files[i].zero.present <=> FormatByte = 4
                    /\ log[i].end - log[i].at = EntrySize(FormatByte)

\* A little-endian container whose raw_format 0x20 stands for the format
\* byte 4 was returned: its files have id and zero and no uncompressed_size.
C9_FormatFourReturned ==
    /\ api = "BND4" /\ outcome = "ok"
    /\ ~bnd4.header.big_endian
    /\ bnd4.header.raw_format = 32
    /\ Len(bnd4.files) >= 1
    /\ bnd4.files[1].id.present
    /\ bnd4.files[1].zero.present
    /\ bnd4.files[1].name_offset.present
    /\ ~bnd4.files[1].uncompressed_size.present

\* The input starts with the DCX magic.
Wrapped == Len(file) >= 4 /\ SubSeq(file, 1, 4) = <<68, 67, 88, 0>>

\* The envelope of a wrapped input was parsed and decompressed.
UnwrapDone == Wrapped /\ dcx # EmptyDCX /\ decompress(dcx, env).outcome = "ok"

\* What the call returned: how it ended and, when Ok, the BND4.
CallResult == Returned(outcome, errKind, IF outcome = "ok" THEN bnd4 ELSE EmptyBND4)

\* C10: BND4::from_bytes unwraps a DCX: an input that starts with "DCX\0"
\* is parsed as DCX and decompressed and the BND4 is parsed from the
\* decompressed bytes, a DCX parse or decompress error being returned with
\* no BND4; any other input is parsed unchanged.  The result for a wrapped
\* input is the result of from_bytes on its decompressed payload.
C10_UnwrapsDCX ==
    api = "BND4" /\ pc = "done" =>
        IF ~Wrapped THEN stream = file
        ELSE IF ~UnwrapDone THEN outcome = "err" /\ bnd4 = EmptyBND4
        ELSE /\ stream = decompress(dcx, env).bytes
             /\ CallResult = BND4_from_bytes(stream, env)

\* The DCX parse of a wrapped input panicked.
C10_EnvelopePanics == api = "BND4" /\ Wrapped /\ dcx = EmptyDCX /\ outcome = "panic"

----------------------------------------------------------------------------
(* Properties of decrypt_bhd5_file *)

Decrypted == api = "RSA" /\ pc = "done" /\ outcome = "ok"

\* The sum of the byte counts the RSA operation reported, block by block.
RECURSIVE Reported(_)
Reported(l) == IF l = <<>> THEN 0 ELSE Head(l).n + Reported(Tail(l))

\* Byte j of the concatenation of the decrypted blocks without their first
\* bytes, written from the ciphertext: block (j-1) \div (k-1), byte
\* (j-1) % (k-1) + 2 of it.
PlainByte(j) ==
    RsaByte(file[((j - 1) \div (key.size - 1)) * key.size + ((j - 1) % (key.size - 1)) + 2])

BlocksWithoutFirstByte ==
    /\ Len(file) % key.size = 0
    /\ Len(log) = Len(file) \div key.size
    /\ Len(stream) = Len(log) * (key.size - 1)
    /\ \A j \in 1..Len(stream) : stream[j] = PlainByte(j)

----------------------------------------------------------------------------
(* Properties of the failures *)

\* An assertion on a reserved field failed: in check_bhd5_header,
\* validate_dcx_header, Header::validate or File::validate.
ReservedFieldViolated == pc = "done" /\ errKind = "assert"

NothingParsed == bhd5.buckets = <<>> /\ dcx.content = <<>> /\ bnd4.header = None

\* C12 (as stated): a reserved field outside its allowed set ends the parse
\* with an error value (an InvariantViolation) and no parsed structure.
C12_ViolationIsErrorValue ==
    ReservedFieldViolated => outcome = "err" /\ NothingParsed

\* A failed assertion on a plain BND4 buffer ended the call by a panic.
C12_ViolationPanics ==
    ReservedFieldViolated /\ outcome = "panic" /\ api = "BND4" /\ stream = file

\* A read ran past the end of the buffer.
RanOut == pc = "done" /\ errKind = "eof"

\* C13 (as stated): when the input ends before a field the parser needs,
\* each of the three parsers returns the end-of-input error as a value.
C13_TruncationIsErrorValue == RanOut => outcome = "err"

\* BHD5::from_bytes and DCX::from_bytes ran out of input and panicked.
C13_TruncationPanics ==
    RanOut /\ outcome = "panic" /\ api \in {"BHD5", "DCX"} /\ Len(file) > 0

----------------------------------------------------------------------------
(* Properties of oodle::decompress *)

\* BND4::from_bytes was handed a well-formed envelope of format KRAK.
Kraken == api = "BND4" /\ dcx # EmptyDCX /\ dcx.header.format = StrKRAK

NoOutput == stream = <<>> /\ bnd4 = EmptyBND4

InOodle == pc \in {"oodle_size", "oodle_sym", "oodle_call"}

\* C15: the library handle is acquired only inside oodle::decompress and only
\* after a path was resolved; it is released before the function returns, on
\* the normal return and on the early return of either symbol lookup, so no
\* handle is held after the return; no handle is acquired when the lookup of
\* the path fails.
C15_HandleScopedToDecompress ==
    /\ lib = "held" => InOodle /\ env.oodle /\ Kraken
    /\ InOodle => lib = "held"
    /\ pc \in {"header", "files", "return", "done"} => lib # "held"
    /\ pc = "done" /\ errKind = "libloading" /\ env.load => lib = "released"
    /\ Kraken /\ (pc \in {"header", "files", "return"} \/ outcome = "ok") => lib = "released"
    /\ ~env.oodle \/ ~env.load => lib = "none"

\* oodle::decompress returned early on the second symbol, the handle released.
C15_ReleasedOnEarlyReturn ==
    Kraken /\ pc = "done" /\ errKind = "libloading" /\ env.syms = 1 /\ lib = "released"

----------------------------------------------------------------------------
(* Properties of calls made one after the other *)

\* The calls before this one that were the same entry point on equal bytes.
SameCall(i) == past[i].api = api /\ past[i].file = file /\ past[i].key = key

\* C16: a call of a parser returns what every earlier call of the same
\* parser on equal input bytes returned, the same value or the same error,
\* whatever other calls were made in between.
C16_EqualBytesEqualResults ==
    pc = "done" => \A i \in 1..Len(past) : SameCall(i) => past[i].res = Result

\* A call was repeated after a call on another input, and returned a value.
C16_RepeatedAfterAnother ==
    /\ pc = "done"
    /\ Len(past) = 2
    /\ SameCall(1)
    /\ ~SameCall(2)
    /\ outcome = "ok"
    /\ past[2].res.how = "ok"

----------------------------------------------------------------------------
(* Properties of the cursor *)

\* The buffer the cursor of the call runs over.
Buffer == IF api = "BND4" THEN stream ELSE file

Parsing == api \in {"BHD5", "DCX", "BND4"}

\* C17 (as stated): in every state of a parse the cursor position is within
\* the buffer, 0 <= position <= len(buffer), whatever the offset fields are.
C17_PositionWithinBuffer == Parsing => pos >= 0 /\ pos <= Len(Buffer)

\* read_file_headers has jumped to a file_headers_offset past the end of the
\* buffer and no read has been made there yet.
C17_JumpedPastTheEnd ==
    /\ api = "BHD5"
    /\ pc = "entries"
    /\ outcome = "running"
    /\ pos = AsUsize(bhd5.cur.file_headers_offset)
    /\ pos > Len(file)

----------------------------------------------------------------------------
(* Properties of the layout of a BHD5 index *)

\* The little-endian field of n bytes at offset `at` of the input, as a
\* number and as a word.
WireNum(at, n) == IF n = 0 THEN 0 ELSE file[at + 1] + 256 * (IF n = 1 THEN 0 ELSE file[at + 2])
                                       + 65536 * (IF n < 3 THEN 0 ELSE file[at + 3])
                                       + 16777216 * (IF n < 4 THEN 0 ELSE file[at + 4])
WireWord(at, n) == [i \in 1..n |-> file[at + n + 1 - i]]

\* The offset of the i-th bucket record: the header is 28 bytes, the salt
\* follows, and the records follow the salt.
RecordAt(i) == 28 + WireNum(24, 4) + 8 * (i - 1)

\* The number of entries of the buckets before bucket i.
RECURSIVE EntriesBefore(_)
EntriesBefore(i) == IF i <= 1 THEN 0 ELSE EntriesBefore(i - 1) + WireNum(RecordAt(i - 1), 4)

EntryBytes == IF bhd5.format = "DarkSoulsII" THEN 32 ELSE 40

\* Entry k (from 0) of bucket i is entry g of the log.
EntryInPlace(i, k, g) ==
    /\ log[g].at = WireNum(RecordAt(i) + 4, 4) + k * EntryBytes
    /\ log[g].end = log[g].at + EntryBytes
    /\ log[g].hdr = bhd5.buckets[i].file_headers[k + 1]
    /\ log[g].hdr.aes_key_offset =
          WireWord(log[g].at + (IF bhd5.format = "EldenRing" THEN 32 ELSE 24), 8)
    /\ bhd5.format = "DarkSoulsIII" =>
          /\ log[g].sizeAt = log[g].at + 32
          /\ log[g].hdr.file_size = WireWord(log[g].at + 32, 8)

BucketInPlace(i) ==
    /\ bhd5.buckets[i].file_header_count = WireWord(RecordAt(i), 4)
    /\ bhd5.buckets[i].file_headers_offset = WireWord(RecordAt(i) + 4, 4)
    /\ Len(bhd5.buckets[i].file_headers) = WireNum(RecordAt(i), 4)
    /\ \A k \in 0..(WireNum(RecordAt(i), 4) - 1) : EntryInPlace(i, k, EntriesBefore(i) + k + 1)

\* C18: a parsed BHD5 index has exactly bucket_count buckets and bucket i
\* exactly file_header_count entries; bucket record i is the i-th 8-byte
\* record after the salt; entry k of a bucket is decoded from
\* file_headers_offset + k * S (S = 40 for EldenRing and DarkSoulsIII, 32 for
\* DarkSoulsII) whatever sub-records earlier entries carry, and the
\* DarkSoulsIII file_size is the 8 bytes directly after aes_key_offset.
C18_BucketsAndEntriesInPlace ==
    api = "BHD5" /\ outcome = "ok" =>
        /\ Len(bhd5.buckets) = WireNum(16, 4)
        /\ Len(log) = EntriesBefore(Len(bhd5.buckets) + 1)
        /\ \A i \in 1..Len(bhd5.buckets) : BucketInPlace(i)

\* A DarkSoulsIII index of two buckets was parsed in which an entry with both
\* sub-records is followed by another entry of the same bucket.
C18_EntryAfterSubRecords ==
    /\ api = "BHD5" /\ outcome = "ok" /\ bhd5.format = "DarkSoulsIII"
    /\ Len(bhd5.buckets) = 2
    /\ Len(bhd5.buckets[2].file_headers) = 2
    /\ bhd5.buckets[2].file_headers[1].salted_hash.present
    /\ bhd5.buckets[2].file_headers[1].aes_key.present

----------------------------------------------------------------------------
(* Properties of the content of a DCX *)

\* The big-endian u32 at offset `at` of the input, as a number.
WireBig(at) ==
    16777216 * file[at + 1] + 65536 * file[at + 2] + 256 * file[at + 3] + file[at + 4]

\* Where the payload starts: after the 0x4C bytes of the header, or for EDGE
\* after the 0x70 bytes up to unk6C and the 16-byte block descriptors, whose
\* number is the field at 0x68.
PayloadAt ==
    IF SubSeq(file, 41, 44) = <<69, 68, 71, 69>> THEN 112 + 16 * WireBig(104) ELSE 76

\* C19: the content of a parsed DCX is exactly compressed_size bytes (the
\* field at 0x20): for DFLT and KRAK the bytes from 0x4C on, for EDGE the
\* bytes from the end of the last block descriptor on.
C19_ContentIsCompressedSizeBytes ==
    DCXReturned =>
        /\ Len(dcx.content) = WireBig(32)
        /\ PayloadAt + WireBig(32) <= Len(file)
        /\ dcx.content = [i \in 1..WireBig(32) |-> file[PayloadAt + i]]

\* The content of an EDGE envelope with MaxFiles block descriptors was read.
C19_EdgeContentRead ==
    /\ api = "DCX" /\ outcome = "ok"
    /\ dcx.header.format = <<69, 68, 71, 69>>
    /\ PayloadAt = 112 + 16 * MaxFiles
    /\ dcx.content = <<9, 8, 7, 6, 5>>

----------------------------------------------------------------------------
(* Properties of the order of DCX::from_bytes *)

\* The header of the envelope was read whole and breaks an assertion of
\* validate_dcx_header.
HeaderViolated == dcx.header # None /\ ~validate_dcx_header(dcx.header)

\* The buffer holds fewer payload bytes than compressed_size.
ShortPayload == Len(file) < PayloadAt + WireBig(32)

\* C20: DCX::from_bytes validates the header (with the EDGE fields and block
\* descriptors) before it reads a payload byte: the payload is read only
\* from a validated header, and an input with a header violation and a short
\* payload fails on the violation, the cursor still at the start of the
\* payload, never on the short payload.
C20_ValidatedBeforePayload ==
    api = "DCX" /\ dcx.header # None =>
        /\ pc = "content" \/ dcx.content # <<>> => validate_dcx_header(dcx.header)
        /\ pc \in {"validate", "content"} => pos = PayloadAt
        /\ pc = "done" /\ HeaderViolated /\ ShortPayload =>
              outcome = "panic" /\ errKind = "assert" /\ pos = PayloadAt

\* An envelope with a header violation and a short payload has failed.
C20_ViolationWithShortPayload ==
    api = "DCX" /\ pc = "done" /\ HeaderViolated /\ ShortPayload /\ Len(file) > PayloadAt

----------------------------------------------------------------------------
(* Properties of the file list of a BND4 *)

\* The format byte that the stream stands for: the byte at 0x31, its bits
\* in the opposite order when byte 9 is zero.
StreamFormat == IF stream[10] # 0 THEN stream[50] ELSE Mirror(stream[50])

\* A count or offset below 65536 held in a 32-bit word.
Small(w) == 256 * w[Len(w) - 1] + w[Len(w)]

\* The name of entry f is the zero-terminated string at its name_offset:
\* 16-bit units in the byte order of the stream when byte 0x30 is set, bytes
\* otherwise.
NameInPlace(f) ==
    LET off == Small(f.name_offset.val)
        n   == Len(f.name.val)
    IN  IF stream[49] # 0
        THEN /\ \A j \in 1..n : f.name.val[j] = Decoded(off + 2 * (j - 1), 2) /\ ~IsZero(f.name.val[j])
             /\ IsZero(Decoded(off + 2 * n, 2))
        ELSE /\ \A j \in 1..n : f.name.val[j] = stream[off + j] /\ f.name.val[j] # 0
             /\ stream[off + n + 1] = 0

\* C21: a parsed BND4 has exactly file_count entries; entry k (from 0) is
\* decoded from 0x40 + k * S, S = 20 + 8 [bit 0x20] + 4 [bit 0x02]
\* + 4 [bit 0x04 or 0x08] + 8 [format = 4], whatever names were looked up
\* before it; a name is the zero-terminated string at name_offset, UTF-16
\* when header.unicode is set, and an entry has a name iff it has a
\* name_offset.
C21_EntriesInPlace ==
    api = "BND4" /\ outcome = "ok" =>
        /\ Len(bnd4.files) = Small(Decoded(12, 4))
        /\ Len(log) = Len(bnd4.files)
        /\ \A i \in 1..Len(bnd4.files) :
              /\ log[i].at = 64 + (i - 1) * EntrySize(StreamFormat)
              /\ log[i].end = log[i].at + EntrySize(StreamFormat)
              /\ bnd4.files[i].data_offset =
                    Decoded(log[i].at + 16 + 8 * Bit(StreamFormat, 5), 4)
              /\ bnd4.files[i].name.present <=> bnd4.files[i].name_offset.present
              /\ bnd4.files[i].name.present => NameInPlace(bnd4.files[i])

\* A container of two named entries was returned, in UTF-16 names.
C21_NamedEntriesReturned ==
    /\ api = "BND4" /\ outcome = "ok"
    /\ Len(bnd4.files) = 2
    /\ stream[49] # 0
    /\ bnd4.files[1].name.present
    /\ Len(bnd4.files[1].name.val) = 2
    /\ bnd4.files[2].name.val # bnd4.files[1].name.val

----------------------------------------------------------------------------
(* Properties of the bucket table of a BND4 *)

\* Where the cursor is when the file list has been read.
AfterEntries == 64 + Small(Decoded(12, 4)) * EntrySize(StreamFormat)

\* The bucket header at offset b of the stream, its bucket records after its
\* 16 bytes and its hash records at h.
BucketTableInPlace(b, h) ==
    /\ bnd4.buckets.hashes_offset = Decoded(b, 8)
    /\ bnd4.buckets.bucket_count = Decoded(b + 8, 4)
    /\ Len(bnd4.buckets.buckets) = Small(Decoded(b + 8, 4))
    /\ \A i \in 1..Len(bnd4.buckets.buckets) :
          /\ bnd4.buckets.buckets[i].count = Decoded(b + 16 + 8 * (i - 1), 4)
          /\ bnd4.buckets.buckets[i].index = Decoded(b + 20 + 8 * (i - 1), 4)
    /\ Len(bnd4.buckets.hashes) = Small(Decoded(12, 4))
    /\ \A i \in 1..Len(bnd4.buckets.hashes) :
          /\ bnd4.buckets.hashes[i].hash = Decoded(h + 8 * (i - 1), 4)
          /\ bnd4.buckets.hashes[i].index = Decoded(h + 4 + 8 * (i - 1), 4)

\* C22: a parsed BND4 has a bucket header iff buckets_offset is not 0; it
\* then holds exactly bucket_count bucket records, read one after the other
\* after the 16 bytes at buckets_offset, and exactly file_count hash records,
\* read one after the other from hashes_offset; the cursor is left where it
\* was before the bucket header was read.
C22_BucketTableInPlace ==
    api = "BND4" /\ outcome = "ok" =>
        /\ bnd4.buckets.present <=> ~IsZero(Decoded(56, 8))
        /\ pos = AfterEntries
        /\ bnd4.buckets.present =>
              /\ ret = AfterEntries
              /\ BucketTableInPlace(Position(Decoded(56, 8)), Position(Decoded(Position(Decoded(56, 8)), 8)))

\* A container was returned whose bucket header has two bucket records, the
\* second of them the bytes that are also its first hash record.
C22_TwoBucketsReturned ==
    /\ api = "BND4" /\ outcome = "ok"
    /\ bnd4.buckets.present
    /\ Len(bnd4.buckets.buckets) = 2
    /\ Len(bnd4.buckets.hashes) = 1
    /\ bnd4.buckets.buckets[2].count = bnd4.buckets.hashes[1].hash

----------------------------------------------------------------------------
(* util.rs: the zero-terminated UTF-16 scans, one read per step *)

MaxUnits == 3

\* The UTF-16 code units of the scanned buffers, as the two bytes the reader
\* takes them from: NUL, 'A', a high surrogate and a low surrogate.
UnitBytes == {<<0, 0>>, <<0, 65>>, <<216, 0>>, <<220, 0>>}

RECURSIVE Flatten(_)
Flatten(ws) == IF ws = <<>> THEN <<>> ELSE Head(ws) \o Flatten(Tail(ws))

\* The buffers handed to the scans: up to MaxUnits code units, terminated or
\* not, with or without a last odd byte.
WideFiles ==
    {Flatten(us) \o extra :
        us \in UNION {[1..n -> UnitBytes] : n \in 0..MaxUnits}, extra \in {<<>>, <<65>>}}

WideInputs ==
    {[api |-> a, file |-> f, env |-> NoEnv, key |-> NoKey] :
        a \in {"read_utf16_string", "get_utf16_name_length"}, f \in WideFiles}

\* The value br.read_u16() takes at the cursor, in the reader's byte order
\* (big-endian unless the caller set another); the read fails when fewer
\* than two bytes are left.
UnitAtCursor == 256 * file[pos + 1] + file[pos + 2]

\* String::from_utf16 accepts the units: every high surrogate is followed by
\* a low one and no low surrogate stands alone.
RECURSIVE WellFormed(_)
WellFormed(u) ==
    IF u = <<>> THEN TRUE
    ELSE IF u[1] \in 55296..56319
         THEN Len(u) >= 2 /\ u[2] \in 56320..57343 /\ WellFormed(SubSeq(u, 3, Len(u)))
         ELSE u[1] \notin 56320..57343 /\ WellFormed(Tail(u))

\* read_utf16_string, one read_u16 and push: `stream` is chrs.  The read
\* before the loop and the reads in it are the same step.
UTF16_ReadUnit ==
    /\ api = "read_utf16_string" /\ pc \in {"start", "scan"} /\ outcome = "running"
    /\ IF pos + 2 > Len(file)
       THEN UNCHANGED <<pos, stream>> /\ End("err", "eof")
       ELSE /\ pos' = pos + 2
            /\ stream' = Append(stream, UnitAtCursor)
            /\ IF UnitAtCursor # 0 THEN Going("scan")
               ELSE IF WellFormed(stream') THEN End("ok", "none")
               ELSE End("panic", "utf16")
    /\ UNCHANGED <<past, api, file, env, key, lib, ret, bhd5, dcx, bnd4, log>>

\* get_utf16_name_length, one turn of the loop: `ret` is count once the scan
\* has begun, and start is the position the reader came with.
UTF16_CountUnit ==
    /\ api = "get_utf16_name_length" /\ pc \in {"start", "scan"} /\ outcome = "running"
    /\ LET count == IF pc = "start" THEN 1 ELSE ret
       IN  IF pos + 2 > Len(file)
           THEN pos' = pos /\ ret' = count /\ End("panic", "eof")
           ELSE IF UnitAtCursor = 0
                THEN pos' = 0 /\ ret' = count /\ End("ok", "none")
                ELSE pos' = pos + 2 /\ ret' = count + 1 /\ Going("scan")
    /\ UNCHANGED <<past, api, file, env, key, lib, bhd5, dcx, bnd4, stream, log>>

----------------------------------------------------------------------------
(* Every call runs to its end *)

InitLive ==
    /\ \E inp \in Inputs \cup Ciphertexts \cup WideInputs :
          /\ api = inp.api
          /\ file = inp.file
          /\ env = inp.env
          /\ key = inp.key
    /\ lib = "none"
    /\ past = <<>>
    /\ pc = "start"
    /\ pos = 0
    /\ ret = 0
    /\ outcome = "running"
    /\ errKind = "none"
    /\ bhd5 = EmptyBHD5
    /\ dcx = EmptyDCX
    /\ bnd4 = EmptyBND4
    /\ stream = <<>>
    /\ log = <<>>

NextLive == Next \/ UTF16_ReadUnit \/ UTF16_CountUnit

\* The calls are synchronous code on one thread and nothing suspends them: a
\* call that has a next step takes it.  The steps of the block loop and of
\* the scans are weakly fair.  So are the steps of the parsers, whose
\* enabling condition is written out: all of them are guarded by Running, and
\* a parser that is running has a step.
SpecLive ==
    /\ InitLive
    /\ [][NextLive]_vars
    /\ WF_vars(RSA_ParseKey \/ RSA_Block \/ RSA_Return)
    /\ WF_vars(UTF16_ReadUnit \/ UTF16_CountUnit)
    /\ (<>[](outcome = "running" /\ api \in {"BHD5", "DCX", "BND4"}) => []<><<Next>>_vars)

\* A turn of a loop that leaves the call in the loop has moved through the
\* buffer: the block loop, the entry loops and the scans move the position
\* forward, and a finished bucket leaves the cursor one table record on and
\* the list one bucket longer.
StrictProgress ==
    /\ pc = "blocks" /\ pc' = "blocks" => pos' > pos /\ Len(log') = Len(log) + 1
    /\ pc = "entries" /\ pc' = "entries" => pos' > pos
    /\ pc = "files" /\ pc' = "files" => pos' > pos /\ Len(bnd4.files') = Len(bnd4.files) + 1
    /\ pc = "buckets" /\ pc' = "entries" => ret' = pos + 8
    /\ pc = "entries" /\ pc' = "buckets" =>
          pos' = ret /\ Len(bhd5.buckets') = Len(bhd5.buckets) + 1
    /\ pc' = "scan" => pos' = pos + 2

\* C23: every call ends, with a result or with a failure, and until then
\* each turn of a loop makes strict progress through the buffer.
C23_EveryCallEnds ==
    /\ <>(pc = "done" /\ outcome \in {"ok", "err", "panic"})
    /\ [][StrictProgress]_vars

\* get_utf16_name_length has counted three units and, finding no terminator
\* before the end of the buffer, has ended.
C23_UnterminatedScanEnded ==
    /\ api = "get_utf16_name_length"
    /\ pc = "done"
    /\ outcome = "panic"
    /\ ret = 4
    /\ pos = 6



====
